---- MODULE Spec2Model ----
(***************************************************************************)
(* Model of the QuickBooks customer connector:                             *)
(*   - customer_excel_qb_sync.py : compare_customers, connect_to_quickbooks*)
(*     get_qb_customers, save_customers_to_quickbooks, process_customers   *)
(*   - qb_gateway.py : _qb_session, _send_qbxml, _parse_response,          *)
(*     fetch_customers, add_customer_batch, add_customer, _escape_xml      *)
(*   - runner.py : run_customer_sync;  cli.py : main                       *)
(*   - excel_reader.py : extract_customers;  compare.py : compare_customers *)
(* Text values are sequences of one-character strings so that strip() and  *)
(* lower() are computed character by character.                            *)
(***************************************************************************)
EXTENDS Integers, Sequences, FiniteSets, TLC

VARIABLES
    op,               \* the operation being executed (the function called by the user)
    pc,               \* position inside the operation
    excel_customers,  \* list[Customer] handed to compare_customers (Excel side)
    qb_customers,     \* list[Customer] handed to compare_customers (QuickBooks side)
    comparison,       \* CustomerComparison returned by compare_customers, or NoValue
    workbook,         \* the Excel file: missing, without the sheet, or the rows of the sheet
    candidates,       \* argument of the write function being executed
    fn,               \* the function that currently talks to QuickBooks, or "none"
    rpc,              \* position inside fn
    session,          \* local variables of fn: the (qb_app, session) it holds
    pending,          \* result or exception of fn's body, waiting for its finally block
    ret,              \* outcome of the last call of fn
    response,         \* the last answer of ProcessRequest
    calls,            \* log of the COM calls: <<[m |-> method, ok |-> succeeded]>>
    invoked,          \* log of the functions started: <<[fn |-> name, arg |-> argument]>>
    outcome,          \* outcome of the operation: a return value or an exception
    report_payload,   \* local variable report_payload of run_customer_sync
    report            \* the report file written by run_customer_sync, or NoValue

vars == <<op, pc, excel_customers, qb_customers, comparison, workbook, candidates,
          fn, rpc, session, pending, ret, response, calls, invoked, outcome,
          report_payload, report>>

remote_vars == <<candidates, fn, rpc, session, pending, ret, response, calls, invoked>>

NoValue == [none |-> TRUE]

\* the Excel file of a run; operations that read no file get NoWorkbook
Workbook(state, rows) == [state |-> state, rows |-> rows]
NoWorkbook == Workbook("unused", <<>>)

(***************************************************************************)
(* Bounds                                                                  *)
(***************************************************************************)
MaxExcel == 2
MaxQb == 2

(***************************************************************************)
(* Text: str.strip() and str.lower()                                       *)
(***************************************************************************)
IsSpace(c) == c \in {" ", "\t", "\n"}

RECURSIVE py_lstrip(_)
py_lstrip(s) ==
    IF s = <<>> THEN <<>>
    ELSE IF IsSpace(Head(s)) THEN py_lstrip(Tail(s)) ELSE s

RECURSIVE py_rstrip(_)
py_rstrip(s) ==
    IF s = <<>> THEN <<>>
    ELSE IF IsSpace(s[Len(s)]) THEN py_rstrip(SubSeq(s, 1, Len(s) - 1)) ELSE s

py_strip(s) == py_rstrip(py_lstrip(s))

LowerChar(c) ==
    CASE c = "A" -> "a"
      [] c = "B" -> "b"
      [] c = "M" -> "m"
      [] c = "N" -> "n"
      [] OTHER -> c

py_lower(s) == [i \in 1..Len(s) |-> LowerChar(s[i])]

(***************************************************************************)
(* Customer records (customer_excel_qb_sync.Customer) and input pools      *)
(***************************************************************************)
Customer(n, t, cid) == [name |-> n, term |-> t, customer_id |-> cid]

DataPool ==
    { [name |-> <<"a">>,      term |-> <<"n">>],
      [name |-> <<" ", "A">>, term |-> <<"N", " ">>],
      [name |-> <<"b">>,      term |-> <<"n">>],
      [name |-> <<"a">>,      term |-> <<"m">>] }

ExcelIds == {1, 2}
QbIds == {2, 3}

ExcelPool == { Customer(d.name, d.term, i) : d \in DataPool, i \in ExcelIds }
QbPool == { Customer(d.name, d.term, i) : d \in DataPool, i \in QbIds }

SeqsUpTo(S, n) == UNION { [1..k -> S] : k \in 0..n }

(***************************************************************************)
(* dict comprehension {c.customer_id: c for c in customers}: the keys keep *)
(* the position of their first insertion, the value is the last one stored *)
(***************************************************************************)
RECURSIVE dict_keys_keeping_duplicates(_, _)
dict_keys_keeping_duplicates(customers, seen) ==
    IF customers = <<>> THEN <<>>
    ELSE <<Head(customers).customer_id>>
         \o dict_keys_keeping_duplicates(Tail(customers), seen)

RECURSIVE dict_keys(_, _)
dict_keys(customers, seen) ==
    IF customers = <<>> THEN <<>>
    ELSE LET cid == Head(customers).customer_id IN
         IF cid \in seen THEN dict_keys(Tail(customers), seen)
         ELSE <<cid>> \o dict_keys(Tail(customers), seen \cup {cid})

RECURSIVE dict_get(_, _, _)
dict_get(customers, cid, current) ==
    IF customers = <<>> THEN current
    ELSE IF Head(customers).customer_id = cid
         THEN dict_get(Tail(customers), cid, Head(customers))
         ELSE dict_get(Tail(customers), cid, current)

dict_has(customers, cid) == \E i \in 1..Len(customers) : customers[i].customer_id = cid

(***************************************************************************)
(* compare_customers                                                       *)
(***************************************************************************)
same_data_raw(excel_cust, qb_cust) ==
    /\ excel_cust.name = qb_cust.name
    /\ excel_cust.term = qb_cust.term

same_data(excel_cust, qb_cust) ==
    /\ py_lower(py_strip(excel_cust.name)) = py_lower(py_strip(qb_cust.name))
    /\ py_lower(py_strip(excel_cust.term)) = py_lower(py_strip(qb_cust.term))

conflict_entry_normalized(excel_cust, qb_cust, cid) ==
    <<py_lower(py_strip(excel_cust.name)), py_lower(py_strip(qb_cust.name)),
      py_lower(py_strip(excel_cust.term)), cid>>

conflict_entry(excel_cust, qb_cust, cid) ==
    <<excel_cust.name, qb_cust.name, excel_cust.term, cid>>

RECURSIVE excel_loop(_, _, _, _)
excel_loop(keys, excel, qb, acc) ==
    IF keys = <<>> THEN acc
    ELSE LET cid == Head(keys)
             excel_cust == dict_get(excel, cid, NoValue)
             qb_cust == dict_get(qb, cid, NoValue)
             next ==
                 IF dict_has(qb, cid)
                 THEN IF same_data(excel_cust, qb_cust)
                      THEN [acc EXCEPT !.matching_count = @ + 1]
                      ELSE [acc EXCEPT !.same_id_diff_data =
                                Append(@, conflict_entry(excel_cust, qb_cust, cid))]
                 ELSE [acc EXCEPT !.only_in_excel = Append(@, excel_cust)]
         IN excel_loop(Tail(keys), excel, qb, next)

RECURSIVE qb_loop_reversed(_, _, _, _)
qb_loop_reversed(keys, excel, qb, acc) ==
    IF keys = <<>> THEN acc
    ELSE LET cid == Head(keys)
             next == IF ~dict_has(excel, cid)
                     THEN [acc EXCEPT !.only_in_qb = <<dict_get(qb, cid, NoValue)>> \o @]
                     ELSE acc
         IN qb_loop_reversed(Tail(keys), excel, qb, next)

RECURSIVE qb_loop(_, _, _, _)
qb_loop(keys, excel, qb, acc) ==
    IF keys = <<>> THEN acc
    ELSE LET cid == Head(keys)
             next == IF ~dict_has(excel, cid)
                     THEN [acc EXCEPT !.only_in_qb = Append(@, dict_get(qb, cid, NoValue))]
                     ELSE acc
         IN qb_loop(Tail(keys), excel, qb, next)

compare_customers(excel, qb) ==
    LET empty == [same_id_diff_data |-> <<>>, only_in_excel |-> <<>>,
                  only_in_qb |-> <<>>, matching_count |-> 0]
        after_excel == excel_loop(dict_keys(excel, {}), excel, qb, empty)
    IN qb_loop(dict_keys(qb, {}), excel, qb, after_excel)

(***************************************************************************)
(* Specification of the comparison: the inputs are drawn in the initial    *)
(* state, CompareCustomers applies the function.                           *)
(***************************************************************************)
InitCompare ==
    /\ op = "compare_customers"
    /\ pc = "call"
    /\ excel_customers \in SeqsUpTo(ExcelPool, MaxExcel)
    /\ qb_customers \in SeqsUpTo(QbPool, MaxQb)
    /\ comparison = NoValue
    /\ workbook = NoWorkbook
    /\ candidates = <<>>
    /\ fn = "none"
    /\ rpc = "idle"
    /\ session = NoValue
    /\ pending = NoValue
    /\ ret = NoValue
    /\ response = NoValue
    /\ calls = <<>>
    /\ invoked = <<>>
    /\ outcome = NoValue
    /\ report_payload = NoValue
    /\ report = NoValue

CompareCustomers ==
    /\ op = "compare_customers"
    /\ pc = "call"
    /\ comparison' = compare_customers(excel_customers, qb_customers)
    /\ pc' = "done"
    /\ outcome' = [kind |-> "return", value |-> comparison']
    /\ UNCHANGED <<op, excel_customers, qb_customers, workbook>>
    /\ UNCHANGED remote_vars
    /\ UNCHANGED <<report_payload, report>>

NextCompare == CompareCustomers

SpecCompare == InitCompare /\ [][NextCompare]_vars

(***************************************************************************)
(* Outcomes of a call, exceptions, XML elements                            *)
(***************************************************************************)
Return(v) == [kind |-> "return", value |-> v]
Raise(e) == [kind |-> "raise", exc |-> e]

\* an exception: its class and the pieces its message is formatted from
Exc(type, msg) == [type |-> type, msg |-> msg]

\* the exception a failing COM call raises (pywintypes.com_error)
com_error(method) == Exc("com_error", <<method>>)

\* what find() returns for a child element: no element, an element without
\* text (text is None), or an element with text
Absent == [e |-> "absent"]
Empty == [e |-> "empty"]
Text(s) == [e |-> "text", v |-> s]

\* a response document: not well-formed XML, or the sequence of its items
Malformed == [wellformed |-> FALSE, items |-> <<>>]
Document(items) == [wellformed |-> TRUE, items |-> items]

ParseError == Exc("ParseError", <<"not well-formed">>)

\* "piece in str(exc)": the message is the flat sequence of its fragments, and
\* a status message is carried into RuntimeError(status_message) unchanged
MsgHas(msg, piece) == \E i \in 1..Len(msg) : msg[i] = piece

LogCall(method, ok) == Append(calls, [m |-> method, ok |-> ok])

(***************************************************************************)
(* int(text): surrounding whitespace is ignored, an optional sign, then    *)
(* decimal digits only                                                     *)
(***************************************************************************)
Digits == {"0", "1", "2", "3", "4", "5", "6", "7", "8", "9"}

DigitValue(c) ==
    CASE c = "0" -> 0 [] c = "1" -> 1 [] c = "2" -> 2 [] c = "3" -> 3 [] c = "4" -> 4
      [] c = "5" -> 5 [] c = "6" -> 6 [] c = "7" -> 7 [] c = "8" -> 8 [] c = "9" -> 9

RECURSIVE digits_value(_, _)
digits_value(s, acc) ==
    IF s = <<>> THEN acc ELSE digits_value(Tail(s), 10 * acc + DigitValue(Head(s)))

\* [ok |-> TRUE, v |-> n], or [ok |-> FALSE] where int() raises ValueError
py_int(text) ==
    LET t == py_strip(text)
        signed == t # <<>> /\ Head(t) \in {"+", "-"}
        body == IF signed THEN Tail(t) ELSE t
    IN IF body # <<>> /\ \A i \in 1..Len(body) : body[i] \in Digits
       THEN [ok |-> TRUE,
             v |-> IF signed /\ Head(t) = "-" THEN 0 - digits_value(body, 0)
                   ELSE digits_value(body, 0)]
       ELSE [ok |-> FALSE]

(***************************************************************************)
(* Bounds and pools of the remote operations                               *)
(***************************************************************************)
MaxBatch == 3
MaxRet == 2

\* candidates handed directly to save_customers_to_quickbooks
CandidatePool == { Customer(<<"a">>, <<"n">>, 1), Customer(<<"b">>, <<>>, 2) }

\* one CustomerAddRs of a batch answer, for the candidate it answers
SaveItemKinds == {"ok", "ok_no_name", "duplicate", "rejected", "no_status"}

SaveItem(kind, cust) ==
    CASE kind = "ok" ->
            [statusCode |-> Text(<<"0">>), statusMessage |-> Text(<<"Status OK">>),
             Name |-> Text(cust.name)]
      [] kind = "ok_no_name" ->
            [statusCode |-> Text(<<"0">>), statusMessage |-> Text(<<"Status OK">>),
             Name |-> Absent]
      [] kind = "duplicate" ->
            [statusCode |-> Text(<<"3", "1", "0", "0">>),
             statusMessage |-> Text(<<"already in use">>), Name |-> Absent]
      [] kind = "rejected" ->
            [statusCode |-> Text(<<"3", "1", "2", "0">>),
             statusMessage |-> Text(<<"invalid reference">>), Name |-> Absent]
      [] kind = "no_status" ->
            [statusCode |-> Absent, statusMessage |-> Absent, Name |-> Absent]

SaveResponses(custs) ==
    {Malformed} \cup
    { Document([i \in 1..Len(custs) |-> SaveItem(kinds[i], custs[i])]) :
        kinds \in [1..Len(custs) -> SaveItemKinds] }

\* one CustomerRet of a query answer
RetPool ==
    { [Name |-> Text(<<"a">>), Fax |-> Text(<<"1">>), Terms |-> Text(<<"n">>)],
      [Name |-> Text(<<"A", " ">>), Fax |-> Text(<<" ", "2">>), Terms |-> Absent],
      [Name |-> Text(<<"c">>), Fax |-> Text(<<"3">>), Terms |-> Text(<<"m", " ">>)],
      [Name |-> Text(<<"c">>), Fax |-> Text(<<"x">>), Terms |-> Absent],
      [Name |-> Absent, Fax |-> Text(<<"1">>), Terms |-> Absent],
      [Name |-> Empty, Fax |-> Text(<<"1">>), Terms |-> Absent] }

QueryResponses == {Malformed} \cup { Document(items) : items \in SeqsUpTo(RetPool, MaxRet) }

(***************************************************************************)
(* customer_excel_qb_sync: parsing of the answers                          *)
(***************************************************************************)
\* get_qb_customers, lines 98-117: the loop over the CustomerRet elements
RECURSIVE parse_customer_rets(_, _)
parse_customer_rets(items, customers) ==
    IF items = <<>> THEN Return(customers)
    ELSE LET cust_ret == Head(items) IN
         IF cust_ret.Name.e # "absent" /\ cust_ret.Fax.e # "absent"
         THEN \* int(None) raises TypeError, int("x") ValueError: both skip the element
              IF cust_ret.Fax.e = "empty" \/ ~py_int(cust_ret.Fax.v).ok
              THEN parse_customer_rets(Tail(items), customers)
              ELSE IF cust_ret.Terms.e = "empty" \/ cust_ret.Name.e = "empty"
              THEN Raise(Exc("AttributeError", <<"'NoneType' object has no attribute 'strip'">>))
              ELSE parse_customer_rets(Tail(items),
                       Append(customers,
                              Customer(py_strip(cust_ret.Name.v),
                                       IF cust_ret.Terms.e = "absent" THEN <<>>
                                       ELSE py_strip(cust_ret.Terms.v),
                                       py_int(cust_ret.Fax.v).v)))
         ELSE parse_customer_rets(Tail(items), customers)

\* get_qb_customers, lines 96-120: ET.fromstring, the loop, and the except
\* clause that wraps every exception in a RuntimeError
read_failed(e) == Exc("RuntimeError", <<"Failed to read QuickBooks customers: ">> \o e.msg)

get_qb_parse(resp) ==
    IF ~resp.wellformed THEN Raise(read_failed(ParseError))
    ELSE LET parsed == parse_customer_rets(resp.items, <<>>) IN
         IF parsed.kind = "raise" THEN Raise(read_failed(parsed.exc)) ELSE parsed

\* save_customers_to_quickbooks, lines 162-176: the loop over CustomerAddRs
RECURSIVE created_names(_, _)
created_names(items, created) ==
    IF items = <<>> THEN created
    ELSE LET add_rs == Head(items)
             code == add_rs.statusCode
         IN IF code = Text(<<"0">>)
            THEN created_names(Tail(items),
                     IF add_rs.Name.e # "absent" THEN Append(created, add_rs.Name.v)
                     ELSE created)
            ELSE created_names(Tail(items), created)

\* the warnings printed at line 174, one per item that is neither "0" nor "3100"
RECURSIVE printed_warnings(_, _)
printed_warnings(items, printed) ==
    IF items = <<>> THEN printed
    ELSE LET add_rs == Head(items)
             code == add_rs.statusCode
         IN IF code = Text(<<"0">>) \/ code = Text(<<"3", "1", "0", "0">>)
            THEN printed_warnings(Tail(items), printed)
            ELSE printed_warnings(Tail(items),
                     Append(printed,
                            IF add_rs.statusMessage.e = "absent" THEN <<"Unknown error">>
                            ELSE add_rs.statusMessage.v))

save_parse(resp) ==
    IF ~resp.wellformed THEN Raise(ParseError)
    ELSE Return(created_names(resp.items, <<>>))

(***************************************************************************)
(* read_customers_from_excel                                               *)
(***************************************************************************)
\* a cell value: None, a str or an int
CNone == [t |-> "none"]
CStr(s) == [t |-> "str", v |-> s]
CInt(n) == [t |-> "int", v |-> n]

\* Python truthiness of a cell: None, "" and 0 are false
Truthy(cell) ==
    CASE cell.t = "none" -> FALSE
      [] cell.t = "str" -> cell.v # <<>>
      [] cell.t = "int" -> cell.v # 0

RowPool ==
    { [name |-> CStr(<<"a">>),      term |-> CStr(<<"n">>), cid |-> CInt(1)],
      [name |-> CStr(<<" ", "b">>), term |-> CNone,         cid |-> CInt(2)],
      [name |-> CStr(<<"c">>),      term |-> CStr(<<"M">>), cid |-> CStr(<<"3">>)],
      [name |-> CNone,              term |-> CStr(<<"n">>), cid |-> CInt(1)] }

MaxRows == 2

Workbooks ==
    {Workbook("missing", <<>>), Workbook("no_sheet", <<>>)} \cup
    { Workbook("ok", rows) : rows \in SeqsUpTo(RowPool, MaxRows) }

\* the files given to run_customer_sync, and to cli.main as --workbook
MaxRunRows == 1

RunWorkbooks ==
    {Workbook("missing", <<>>), Workbook("no_sheet", <<>>)} \cup
    { Workbook("ok", rows) : rows \in SeqsUpTo(RowPool, MaxRunRows) }

CliWorkbooks ==
    {Workbook("missing", <<>>), Workbook("no_sheet", <<>>)} \cup
    { Workbook("ok", <<row>>) : row \in RowPool }

\* lines 47-57: the loop over the rows
RECURSIVE read_rows(_, _)
read_rows(rows, customers) ==
    IF rows = <<>> THEN customers
    ELSE LET row == Head(rows) IN
         IF ~Truthy(row.name) \/ ~Truthy(row.cid)
         THEN read_rows(Tail(rows), customers)
         ELSE LET cid_int == IF row.cid.t = "int" THEN [ok |-> TRUE, v |-> row.cid.v]
                             ELSE py_int(row.cid.v)
                  term_str == IF Truthy(row.term) THEN py_strip(row.term.v) ELSE <<>>
              IN IF cid_int.ok
                 THEN read_rows(Tail(rows),
                          Append(customers,
                                 Customer(py_strip(row.name.v), term_str, cid_int.v)))
                 ELSE read_rows(Tail(rows), customers)

read_customers_from_excel(book) ==
    IF book.state = "missing"
    THEN Raise(Exc("FileNotFoundError", <<"No such file or directory">>))
    ELSE IF book.state = "no_sheet"
    THEN Raise(Exc("KeyError", <<"Worksheet customers does not exist.">>))
    ELSE Return(read_rows(book.rows, <<>>))

(***************************************************************************)
(* customer_excel_qb_sync: connect_to_quickbooks, get_qb_customers and     *)
(* save_customers_to_quickbooks, one action per COM call                   *)
(***************************************************************************)
SyncFns == {"get_qb_customers", "save_customers_to_quickbooks"}

Save_Entry_always_connects ==
    /\ fn = "save_customers_to_quickbooks"
    /\ rpc = "entry"
    /\ rpc' = "dispatch"
    /\ UNCHANGED <<op, pc, excel_customers, qb_customers, comparison, workbook,
                   candidates, fn, session, pending, ret, response, calls, invoked,
                   outcome>>
    /\ UNCHANGED <<report_payload, report>>

\* save_customers_to_quickbooks, lines 153-154
Save_Entry ==
    /\ fn = "save_customers_to_quickbooks"
    /\ rpc = "entry"
    /\ IF candidates = <<>>
       THEN /\ ret' = Return(<<>>)
            /\ rpc' = "returned"
       ELSE /\ rpc' = "dispatch"
            /\ UNCHANGED ret
    /\ UNCHANGED <<op, pc, excel_customers, qb_customers, comparison, workbook,
                   candidates, fn, session, pending, response, calls, invoked, outcome>>
    /\ UNCHANGED <<report_payload, report>>

\* An exception inside connect_to_quickbooks is printed and re-raised (lines
\* 70-72).  get_qb_customers catches it at line 119 and raises a RuntimeError;
\* its finally block finds qb_app and session still None.  In
\* save_customers_to_quickbooks the call is outside the try block (line 156).
connect_raised(e) ==
    IF fn = "get_qb_customers" THEN Raise(read_failed(e)) ELSE Raise(e)

ConnectCall(method, next_label) ==
    /\ \E ok \in BOOLEAN :
         /\ calls' = LogCall(method, ok)
         /\ IF ok
            THEN /\ rpc' = next_label
                 /\ UNCHANGED ret
            ELSE /\ rpc' = "returned"
                 /\ ret' = connect_raised(com_error(method))
    /\ session' = IF rpc' = "request" THEN [qb_app |-> "qb_app", ticket |-> "ticket"]
                  ELSE session
    /\ UNCHANGED <<op, pc, excel_customers, qb_customers, comparison, workbook,
                   candidates, fn, pending, response, invoked, outcome>>

\* line 66
Connect_Dispatch ==
    /\ fn \in SyncFns
    /\ rpc = "dispatch"
    /\ ConnectCall("Dispatch", "open")
    /\ UNCHANGED <<report_payload, report>>

\* line 67
Connect_OpenConnection ==
    /\ fn \in SyncFns
    /\ rpc = "open"
    /\ ConnectCall("OpenConnection", "begin")
    /\ UNCHANGED <<report_payload, report>>

\* lines 68-69
Connect_BeginSession ==
    /\ fn \in SyncFns
    /\ rpc = "begin"
    /\ ConnectCall("BeginSession", "request")
    /\ UNCHANGED <<report_payload, report>>

\* get_qb_customers, lines 95-120
GetQb_ProcessRequest ==
    /\ fn = "get_qb_customers"
    /\ rpc = "request"
    /\ \/ /\ calls' = LogCall("ProcessRequest", FALSE)
          /\ pending' = Raise(read_failed(com_error("ProcessRequest")))
          /\ UNCHANGED response
       \/ \E resp \in QueryResponses :
            /\ calls' = LogCall("ProcessRequest", TRUE)
            /\ response' = resp
            /\ pending' = get_qb_parse(resp)
    /\ rpc' = "end"
    /\ UNCHANGED <<op, pc, excel_customers, qb_customers, comparison, workbook,
                   candidates, fn, session, ret, invoked, outcome>>
    /\ UNCHANGED <<report_payload, report>>

\* save_customers_to_quickbooks, lines 158-176
Save_ProcessRequest ==
    /\ fn = "save_customers_to_quickbooks"
    /\ rpc = "request"
    /\ \/ /\ calls' = LogCall("ProcessRequest", FALSE)
          /\ pending' = Raise(com_error("ProcessRequest"))
          /\ UNCHANGED response
       \/ \E resp \in SaveResponses(candidates) :
            /\ calls' = LogCall("ProcessRequest", TRUE)
            /\ response' = resp
            /\ pending' = save_parse(resp)
    /\ rpc' = "end"
    /\ UNCHANGED <<op, pc, excel_customers, qb_customers, comparison, workbook,
                   candidates, fn, session, ret, invoked, outcome>>
    /\ UNCHANGED <<report_payload, report>>

\* the finally blocks, lines 121-124 and 177-179: EndSession, then
\* CloseConnection; an exception of EndSession leaves the block at once.
\* The test of line 122 holds here: connect_to_quickbooks has returned the
\* COM object and the ticket of the session.
Sync_EndSession ==
    /\ fn \in SyncFns
    /\ rpc = "end"
    /\ session # NoValue
    /\ \E ok \in BOOLEAN :
         /\ calls' = LogCall("EndSession", ok)
         /\ IF ok
            THEN /\ rpc' = "close"
                 /\ UNCHANGED ret
            ELSE /\ rpc' = "returned"
                 /\ ret' = Raise(com_error("EndSession"))
    /\ UNCHANGED <<op, pc, excel_customers, qb_customers, comparison, workbook,
                   candidates, fn, session, pending, response, invoked, outcome>>
    /\ UNCHANGED <<report_payload, report>>

Sync_CloseConnection ==
    /\ fn \in SyncFns
    /\ rpc = "close"
    /\ \E ok \in BOOLEAN :
         /\ calls' = LogCall("CloseConnection", ok)
         /\ ret' = IF ok THEN pending ELSE Raise(com_error("CloseConnection"))
    /\ rpc' = "returned"
    /\ UNCHANGED <<op, pc, excel_customers, qb_customers, comparison, workbook,
                   candidates, fn, session, pending, response, invoked, outcome>>
    /\ UNCHANGED <<report_payload, report>>

(***************************************************************************)
(* The operations get_qb_customers() and save_customers_to_quickbooks(c)   *)
(* called on their own                                                     *)
(***************************************************************************)
Start(name, arg, first) ==
    /\ fn' = name
    /\ rpc' = first
    /\ candidates' = arg
    /\ invoked' = Append(invoked, [fn |-> name, arg |-> arg])
    /\ session' = NoValue
    /\ pending' = NoValue
    /\ ret' = NoValue

Call_GetQbCustomers ==
    /\ op = "get_qb_customers"
    /\ pc = "call"
    /\ Start("get_qb_customers", <<>>, "dispatch")
    /\ pc' = "wait"
    /\ UNCHANGED <<op, excel_customers, qb_customers, comparison, workbook,
                   response, calls, outcome>>
    /\ UNCHANGED <<report_payload, report>>

Call_SaveCustomers ==
    /\ op = "save_customers_to_quickbooks"
    /\ pc = "call"
    /\ Start("save_customers_to_quickbooks", candidates, "entry")
    /\ pc' = "wait"
    /\ UNCHANGED <<op, excel_customers, qb_customers, comparison, workbook,
                   response, calls, outcome>>
    /\ UNCHANGED <<report_payload, report>>

Finish_Call ==
    /\ op \in SyncFns
    /\ pc = "wait"
    /\ rpc = "returned"
    /\ outcome' = ret
    /\ pc' = "done"
    /\ fn' = "none"
    /\ rpc' = "idle"
    /\ UNCHANGED <<op, excel_customers, qb_customers, comparison, workbook,
                   candidates, session, pending, ret, response, calls, invoked>>
    /\ UNCHANGED <<report_payload, report>>

(***************************************************************************)
(* runner.run_customer_sync and cli.main: the report                       *)
(***************************************************************************)
\* cli.main calls run_customer_sync, which calls process_customers
RunOps == {"run_customer_sync", "main"}
ProcessOps == {"process_customers"} \cup RunOps

\* runner.py line 54 with output_path=None
ReportPath == [path |-> "customer_sync_report.json"]

\* str(exc): a KeyError shows the repr of its argument
py_str(exc) ==
    IF exc.type = "KeyError" THEN <<"'">> \o exc.msg \o <<"'">> ELSE exc.msg

\* runner.py lines 56-64
initial_payload ==
    [status |-> "success", generated_at |-> "iso_timestamp",
     excel_customers_count |-> 0, qb_customers_count |-> 0,
     added_customers |-> <<>>, conflicts |-> <<>>, only_in_qb |-> Absent,
     error |-> Absent]

\* runner.py lines 80 and 95
customer_dicts(customers) ==
    [i \in 1..Len(customers) |->
        [name |-> customers[i].name, term |-> customers[i].term,
         customer_id |-> customers[i].customer_id]]

\* runner.py lines 84-92
conflict_dicts(same_id_diff_data) ==
    [i \in 1..Len(same_id_diff_data) |->
        [excel_name |-> same_id_diff_data[i][1], qb_name |-> same_id_diff_data[i][2],
         term |-> same_id_diff_data[i][3], customer_id |-> same_id_diff_data[i][4]]]

\* runner.py lines 79-97
success_payload(payload, result) ==
    [payload EXCEPT !.added_customers = customer_dicts(result.only_in_excel),
                    !.conflicts = conflict_dicts(result.same_id_diff_data),
                    !.only_in_qb = [e |-> "list", v |-> customer_dicts(result.only_in_qb)]]

error_payload_keeping_status(payload, exc) ==
    [payload EXCEPT !.error = Text(py_str(exc))]

\* runner.py lines 100-102
error_payload(payload, exc) ==
    [payload EXCEPT !.status = "error", !.error = Text(py_str(exc))]

\* runner.py lines 104-108, cli.py lines 24-26: the report is written and
\* its path returned; main prints the path and returns 0
WriteReport(payload) ==
    /\ report_payload' = payload
    /\ report' = payload
    /\ outcome' = IF op = "main" THEN Return(0) ELSE Return(ReportPath)

\* runner.py lines 56-69 (cli.py 22-24 before them)
RunSync_ReadExcel ==
    /\ op \in RunOps
    /\ pc = "sync_read_excel"
    /\ calls' = LogCall("load_workbook", workbook.state # "missing")
    /\ LET read == read_customers_from_excel(workbook) IN
       IF read.kind = "raise"
       THEN /\ WriteReport(error_payload(initial_payload, read.exc))
            /\ pc' = "done"
            /\ UNCHANGED <<candidates, fn, rpc, session, pending, ret, invoked>>
       ELSE /\ report_payload' =
                  [initial_payload EXCEPT !.excel_customers_count = Len(read.value)]
            /\ Start("get_qb_customers", <<>>, "dispatch")
            /\ pc' = "sync_get_qb"
            /\ UNCHANGED <<outcome, report>>
    /\ UNCHANGED <<op, excel_customers, qb_customers, comparison, workbook, response>>

\* runner.py lines 72-76: the call of process_customers starts
RunSync_GetQb ==
    /\ op \in RunOps
    /\ pc = "sync_get_qb"
    /\ rpc = "returned"
    /\ fn' = "none"
    /\ rpc' = "idle"
    /\ IF ret.kind = "raise"
       THEN /\ WriteReport(error_payload(report_payload, ret.exc))
            /\ pc' = "done"
       ELSE /\ report_payload' =
                  [report_payload EXCEPT !.qb_customers_count = Len(ret.value)]
            /\ pc' = "read_excel"
            /\ UNCHANGED <<outcome, report>>
    /\ UNCHANGED <<op, excel_customers, qb_customers, comparison, workbook,
                   candidates, session, pending, ret, response, calls, invoked>>

(***************************************************************************)
(* process_customers, called on its own or by run_customer_sync            *)
(***************************************************************************)
\* process_customers returns or raises: that is the outcome of the operation,
\* or run_customer_sync goes on with lines 78-108
Process_Finish(result) ==
    IF op = "process_customers"
    THEN /\ outcome' = result
         /\ UNCHANGED <<report_payload, report>>
    ELSE IF result.kind = "raise"
    THEN WriteReport(error_payload(report_payload, result.exc))
    ELSE WriteReport(success_payload(report_payload, result.value))

write_back_of_all_excel_records(excel, compared) == excel

\* line 252: the argument of save_customers_to_quickbooks
write_back_candidates(excel, compared) == compared.only_in_excel

\* lines 222-229
Process_ReadExcel ==
    /\ op \in ProcessOps
    /\ pc = "read_excel"
    /\ calls' = LogCall("load_workbook", workbook.state # "missing")
    /\ LET read == read_customers_from_excel(workbook) IN
       IF read.kind = "raise"
       THEN /\ Process_Finish(read)
            /\ pc' = "done"
            /\ UNCHANGED <<excel_customers, candidates, fn, rpc, session, pending,
                           ret, invoked>>
       ELSE IF read.value = <<>>
       THEN /\ Process_Finish(Raise(Exc("ValueError",
                                        <<"No customers found in Excel file">>)))
            /\ pc' = "done"
            /\ UNCHANGED <<excel_customers, candidates, fn, rpc, session, pending,
                           ret, invoked>>
       ELSE /\ excel_customers' = read.value
            /\ Start("get_qb_customers", <<>>, "dispatch")
            /\ pc' = "get_qb"
            /\ UNCHANGED <<outcome, report_payload, report>>
    /\ UNCHANGED <<op, qb_customers, comparison, workbook, response>>

\* lines 229-256
Process_Compare ==
    /\ op \in ProcessOps
    /\ pc = "get_qb"
    /\ rpc = "returned"
    /\ IF ret.kind = "raise"
       THEN /\ Process_Finish(ret)
            /\ pc' = "done"
            /\ fn' = "none"
            /\ rpc' = "idle"
            /\ UNCHANGED <<qb_customers, comparison, candidates, session, pending,
                           ret, invoked>>
       ELSE /\ qb_customers' = ret.value
            /\ comparison' = compare_customers(excel_customers, ret.value)
            /\ IF comparison'.only_in_excel # <<>>
               THEN /\ Start("save_customers_to_quickbooks",
                             write_back_candidates(excel_customers, comparison'),
                             "entry")
                    /\ pc' = "save"
                    /\ UNCHANGED <<outcome, report_payload, report>>
               ELSE /\ Process_Finish(Return(comparison'))
                    /\ pc' = "done"
                    /\ fn' = "none"
                    /\ rpc' = "idle"
                    /\ UNCHANGED <<candidates, session, pending, ret, invoked>>
    /\ UNCHANGED <<op, excel_customers, workbook, response, calls>>

\* lines 256-261
Process_Return ==
    /\ op \in ProcessOps
    /\ pc = "save"
    /\ rpc = "returned"
    /\ Process_Finish(IF ret.kind = "raise" THEN ret ELSE Return(comparison))
    /\ pc' = "done"
    /\ fn' = "none"
    /\ rpc' = "idle"
    /\ UNCHANGED <<op, excel_customers, qb_customers, comparison, workbook,
                   candidates, session, pending, ret, response, calls, invoked>>

(***************************************************************************)
(* qb_gateway: _qb_session, _send_qbxml, _parse_response                   *)
(***************************************************************************)
\* model.Customer
GwCustomer(rid, n, src) == [record_id |-> rid, name |-> n, source |-> src]

TermsPool ==
    { GwCustomer(<<"7">>, <<"a">>, "excel"),
      GwCustomer(<<" ", "8">>, <<"b", " ">>, "excel"),
      GwCustomer(<<"x">>, <<"c">>, "excel") }

\* str(n) of a non-negative int
RECURSIVE int_to_text(_)
int_to_text(n) ==
    LET d == <<"0", "1", "2", "3", "4", "5", "6", "7", "8", "9">>[(n % 10) + 1]
    IN IF n < 10 THEN <<d>> ELSE Append(int_to_text(n \div 10), d)

\* one StandardTermsAddRs of a batch answer, for the candidate it answers
BatchItemKinds ==
    {"ok", "ok_renamed", "ok_no_ret", "ok_no_days", "ok_no_name", "duplicate", "rejected"}

BatchItem(kind, term) ==
    CASE kind = "ok" ->
            [statusCode |-> Text(<<"0">>), statusMessage |-> Text(<<"Status OK">>),
             Ret |-> [StdDiscountDays |-> Text(int_to_text(py_int(term.record_id).v)),
                      Name |-> Text(term.name)]]
      [] kind = "ok_renamed" ->
            [statusCode |-> Text(<<"0">>), statusMessage |-> Text(<<"Status OK">>),
             Ret |-> [StdDiscountDays |-> Text(<<"9", " ">>),
                      Name |-> Text(<<" ", "z">>)]]
      [] kind = "ok_no_name" ->
            [statusCode |-> Text(<<"0">>), statusMessage |-> Text(<<"Status OK">>),
             Ret |-> [StdDiscountDays |-> Text(int_to_text(py_int(term.record_id).v)),
                      Name |-> Absent]]
      [] kind = "ok_no_ret" ->
            [statusCode |-> Text(<<"0">>), statusMessage |-> Text(<<"Status OK">>),
             Ret |-> Absent]
      [] kind = "ok_no_days" ->
            [statusCode |-> Text(<<"0">>), statusMessage |-> Text(<<"Status OK">>),
             Ret |-> [StdDiscountDays |-> Absent, Name |-> Text(term.name)]]
      [] kind = "duplicate" ->
            [statusCode |-> Text(<<"3", "1", "0", "0">>),
             statusMessage |-> Text(<<"already in use">>), Ret |-> Absent]
      [] kind = "rejected" ->
            [statusCode |-> Text(<<"3", "1", "2", "0">>),
             statusMessage |-> Text(<<"invalid reference">>), Ret |-> Absent]

\* the answers to a batch: not well-formed, without any status, or one item
\* per request
BatchResponses(terms) ==
    {Malformed, Document(<<>>)} \cup
    { Document([i \in 1..Len(terms) |-> BatchItem(kinds[i], terms[i])]) :
        kinds \in [1..Len(terms) -> BatchItemKinds] }

\* one CustomerRet of an answer to the CustomerQueryRq of fetch_customers
GwRet(fax, full_name) == [Fax |-> fax, FullName |-> full_name]

GwRetPool ==
    { GwRet(Text(<<"7">>), Text(<<"a", " ">>)),
      GwRet(Text(<<" ", "8">>), Absent),
      GwRet(Text(<<"x", " ">>), Text(<<"b">>)),
      GwRet(Absent, Text(<<"b">>)),
      GwRet(Text(<<"7", ".", "0">>), Text(<<"a">>)),
      GwRet(Text(<<" ">>), Text(<<"a">>)) }

\* the CustomerQueryRs element of an answer
GwQueryItem(code, message, rets) ==
    [statusCode |-> Text(code), statusMessage |-> Text(<<message>>), Rets |-> rets]

\* the answers to the query: not well-formed, without any status, the
\* records found (status 0), nothing found (status 1), or a refusal
GwQueryResponses ==
    {Malformed, Document(<<>>)} \cup
    { Document(<<GwQueryItem(<<"0">>, "Status OK", rets)>>) :
        rets \in SeqsUpTo(GwRetPool, MaxRet) } \cup
    { Document(<<GwQueryItem(<<"1">>, "A query request did not find a matching object",
                             <<>>)>>),
      Document(<<GwQueryItem(<<"5", "0", "0">>, "Server Error", <<>>)>>) }

\* root.find(".//*[@statusCode]"): the first element that has the attribute
RECURSIVE find_status(_)
find_status(items) ==
    IF items = <<>> THEN Absent
    ELSE IF Head(items).statusCode.e # "absent" THEN Head(items)
    ELSE find_status(Tail(items))

_parse_response_rejecting_status_one(raw_xml) ==
    IF ~raw_xml.wellformed THEN Raise(ParseError)
    ELSE LET resp == find_status(raw_xml.items) IN
         IF resp = Absent
         THEN Raise(Exc("RuntimeError", <<"QuickBooks response missing status information">>))
         ELSE LET status_code == py_int(resp.statusCode.v).v
                  status_message == IF resp.statusMessage.e = "text"
                                    THEN resp.statusMessage.v ELSE <<>>
              IN IF status_code # 0
                 THEN Raise(Exc("RuntimeError", status_message))
                 ELSE Return(raw_xml)

\* lines 62-75
_parse_response(raw_xml) ==
    IF ~raw_xml.wellformed THEN Raise(ParseError)
    ELSE LET resp == find_status(raw_xml.items) IN
         IF resp = Absent
         THEN Raise(Exc("RuntimeError", <<"QuickBooks response missing status information">>))
         ELSE LET status_code == py_int(resp.statusCode.v).v
                  status_message == IF resp.statusMessage.e = "text"
                                    THEN resp.statusMessage.v ELSE <<>>
              IN IF status_code # 0 /\ status_code # 1
                 THEN Raise(Exc("RuntimeError", status_message))
                 ELSE Return(raw_xml)

\* line 38: _require_win32com; whether pywin32 could be imported is a fact of
\* the installation
Gw_Require ==
    /\ fn = "_send_qbxml"
    /\ rpc = "require"
    /\ \E installed \in BOOLEAN :
         IF installed
         THEN /\ rpc' = "dispatch"
              /\ UNCHANGED ret
         ELSE /\ rpc' = "returned"
              /\ ret' = Raise(Exc("RuntimeError",
                                  <<"pywin32 is required to communicate with QuickBooks">>))
    /\ UNCHANGED <<op, pc, excel_customers, qb_customers, comparison, workbook,
                   candidates, fn, session, pending, response, calls, invoked, outcome>>
    /\ UNCHANGED <<report_payload, report>>

\* lines 39-45 run before the try block: an exception there leaves _qb_session
\* without running its finally blocks
GwOpenCall(method, next_label) ==
    /\ \E ok \in BOOLEAN :
         /\ calls' = LogCall(method, ok)
         /\ IF ok
            THEN /\ rpc' = next_label
                 /\ UNCHANGED ret
            ELSE /\ rpc' = "returned"
                 /\ ret' = Raise(com_error(method))
    /\ session' = IF rpc' = "request" THEN [qb_app |-> "session", ticket |-> "ticket"]
                  ELSE session
    /\ UNCHANGED <<op, pc, excel_customers, qb_customers, comparison, workbook,
                   candidates, fn, pending, response, invoked, outcome>>

\* lines 39-41
Gw_Dispatch ==
    /\ fn = "_send_qbxml"
    /\ rpc = "dispatch"
    /\ GwOpenCall("Dispatch", "open")
    /\ UNCHANGED <<report_payload, report>>

\* line 42
Gw_OpenConnection2 ==
    /\ fn = "_send_qbxml"
    /\ rpc = "open"
    /\ GwOpenCall("OpenConnection", "begin")
    /\ UNCHANGED <<report_payload, report>>

\* lines 43-45
Gw_BeginSession ==
    /\ fn = "_send_qbxml"
    /\ rpc = "begin"
    /\ GwOpenCall("BeginSession", "request")
    /\ UNCHANGED <<report_payload, report>>

\* line 58, inside the with block
Gw_ProcessRequest ==
    /\ fn = "_send_qbxml"
    /\ rpc = "request"
    /\ \/ /\ calls' = LogCall("ProcessRequest", FALSE)
          /\ pending' = Raise(com_error("ProcessRequest"))
          /\ UNCHANGED response
       \/ \E resp \in IF op = "fetch_customers" THEN GwQueryResponses
                       ELSE BatchResponses(candidates) :
            /\ calls' = LogCall("ProcessRequest", TRUE)
            /\ response' = resp
            /\ pending' = Return(resp)
    /\ rpc' = "end"
    /\ UNCHANGED <<op, pc, excel_customers, qb_customers, comparison, workbook,
                   candidates, fn, session, ret, invoked, outcome>>
    /\ UNCHANGED <<report_payload, report>>

\* lines 48-52: EndSession inside a nested try whose finally closes the connection
Gw_EndSession ==
    /\ fn = "_send_qbxml"
    /\ rpc = "end"
    /\ \E ok \in BOOLEAN :
         /\ calls' = LogCall("EndSession", ok)
         /\ pending' = IF ok THEN pending ELSE Raise(com_error("EndSession"))
    /\ rpc' = "close"
    /\ UNCHANGED <<op, pc, excel_customers, qb_customers, comparison, workbook,
                   candidates, fn, session, ret, response, invoked, outcome>>
    /\ UNCHANGED <<report_payload, report>>

\* line 52, then line 59 once the with block is left without an exception
Gw_CloseConnection ==
    /\ fn = "_send_qbxml"
    /\ rpc = "close"
    /\ \E ok \in BOOLEAN :
         /\ calls' = LogCall("CloseConnection", ok)
         /\ ret' = IF ~ok THEN Raise(com_error("CloseConnection"))
                   ELSE IF pending.kind = "raise" THEN pending
                   ELSE _parse_response(pending.value)
    /\ rpc' = "returned"
    /\ UNCHANGED <<op, pc, excel_customers, qb_customers, comparison, workbook,
                   candidates, fn, session, pending, response, invoked, outcome>>
    /\ UNCHANGED <<report_payload, report>>

(***************************************************************************)
(* qb_gateway.add_customer_batch                                           *)
(***************************************************************************)
\* lines 125-131: the first candidate whose record_id int() rejects
RECURSIVE first_non_numeric(_)
first_non_numeric(terms) ==
    IF terms = <<>> THEN Absent
    ELSE IF ~py_int(Head(terms).record_id).ok THEN Text(Head(terms).record_id)
    ELSE first_non_numeric(Tail(terms))

\* lines 162-175: the loop over the StandardTermsRet elements
RECURSIVE added_terms(_, _)
added_terms(items, added) ==
    IF items = <<>> THEN added
    ELSE LET item == Head(items) IN
         IF item.Ret = Absent \/ item.Ret.StdDiscountDays.e # "text"
                              \/ item.Ret.StdDiscountDays.v = <<>>
         THEN added_terms(Tail(items), added)
         ELSE LET raw == item.Ret.StdDiscountDays.v
                  record_id == IF py_int(raw).ok THEN int_to_text(py_int(raw).v)
                               ELSE py_strip(raw)
                  name == IF item.Ret.Name.e = "text" THEN py_strip(item.Ret.Name.v)
                          ELSE <<>>
              IN added_terms(Tail(items),
                             Append(added, GwCustomer(record_id, name, "quickbooks")))

\* lines 120-151
AddBatch_Call ==
    /\ op = "add_customer_batch"
    /\ pc = "call"
    /\ IF candidates = <<>>
       THEN /\ outcome' = Return(<<>>)
            /\ pc' = "done"
            /\ UNCHANGED <<fn, rpc, session, pending, ret, invoked, candidates>>
       ELSE IF first_non_numeric(candidates) # Absent
       THEN /\ outcome' = Raise(Exc("ValueError",
                    <<"record_id must be numeric for QuickBooks customer terms: ",
                      first_non_numeric(candidates).v>>))
            /\ pc' = "done"
            /\ UNCHANGED <<fn, rpc, session, pending, ret, invoked, candidates>>
       ELSE /\ Start("_send_qbxml", candidates, "require")
            /\ pc' = "wait"
            /\ UNCHANGED outcome
    /\ UNCHANGED <<op, excel_customers, qb_customers, comparison, workbook,
                   response, calls>>
    /\ UNCHANGED <<report_payload, report>>

\* lines 153-175
AddBatch_Return ==
    /\ op = "add_customer_batch"
    /\ pc = "wait"
    /\ rpc = "returned"
    /\ outcome' = IF ret.kind = "raise"
                  THEN IF ret.exc.type = "RuntimeError" THEN Return(<<>>) ELSE ret
                  ELSE Return(added_terms(ret.value.items, <<>>))
    /\ pc' = "done"
    /\ fn' = "none"
    /\ rpc' = "idle"
    /\ UNCHANGED <<op, excel_customers, qb_customers, comparison, workbook,
                   candidates, session, pending, ret, response, calls, invoked>>
    /\ UNCHANGED <<report_payload, report>>

(***************************************************************************)
(* qb_gateway.add_customer                                                 *)
(***************************************************************************)
\* line 215: root.find(".//StandardTermsRet"), the first one of the document
RECURSIVE first_terms_ret(_)
first_terms_ret(items) ==
    IF items = <<>> THEN Absent
    ELSE IF Head(items).Ret # Absent THEN Head(items).Ret
    ELSE first_terms_ret(Tail(items))

\* findtext(tag) or fallback
text_or(element, fallback) ==
    IF element.e = "text" /\ element.v # <<>> THEN element.v ELSE fallback

\* lines 221-226 and 166-169: str(int(record_id)), or strip() on ValueError
normalise_id(record_id) ==
    IF py_int(record_id).ok THEN int_to_text(py_int(record_id).v)
    ELSE py_strip(record_id)

\* lines 215-227
stored_customer(term, root) ==
    LET term_ret == first_terms_ret(root.items) IN
    IF term_ret = Absent
    THEN GwCustomer(term.record_id, term.name, "quickbooks")
    ELSE GwCustomer(normalise_id(text_or(term_ret.StdDiscountDays, term.record_id)),
                    py_strip(text_or(term_ret.Name, term.name)),
                    "quickbooks")

\* lines 181-205
AddCustomer_Call ==
    /\ op = "add_customer"
    /\ pc = "call"
    /\ IF ~py_int(candidates[1].record_id).ok
       THEN /\ outcome' = Raise(Exc("ValueError",
                    <<"record_id must be numeric for QuickBooks customer terms">>))
            /\ pc' = "done"
            /\ UNCHANGED <<fn, rpc, session, pending, ret, invoked, candidates>>
       ELSE /\ Start("_send_qbxml", candidates, "require")
            /\ pc' = "wait"
            /\ UNCHANGED outcome
    /\ UNCHANGED <<op, excel_customers, qb_customers, comparison, workbook,
                   response, calls, report_payload, report>>

\* lines 204-227
AddCustomer_Return ==
    /\ op = "add_customer"
    /\ pc = "wait"
    /\ rpc = "returned"
    /\ outcome' =
         IF ret.kind = "raise"
         THEN IF ret.exc.type = "RuntimeError" /\ MsgHas(ret.exc.msg, "already in use")
              THEN Return(GwCustomer(candidates[1].record_id, candidates[1].name,
                                     "quickbooks"))
              ELSE ret
         ELSE Return(stored_customer(candidates[1], ret.value))
    /\ pc' = "done"
    /\ fn' = "none"
    /\ rpc' = "idle"
    /\ UNCHANGED <<op, excel_customers, qb_customers, comparison, workbook,
                   candidates, session, pending, ret, response, calls, invoked,
                   report_payload, report>>

(***************************************************************************)
(* qb_gateway.fetch_customers                                              *)
(***************************************************************************)
\* root.findall(".//CustomerRet"): the CustomerRet elements in document order
RECURSIVE customer_rets(_)
customer_rets(items) ==
    IF items = <<>> THEN <<>>
    ELSE Head(items).Rets \o customer_rets(Tail(items))

\* lines 95-110: the loop over the CustomerRet elements
RECURSIVE fetched_customers(_, _)
fetched_customers(rets, terms) ==
    IF rets = <<>> THEN terms
    ELSE LET term_ret == Head(rets)
             name == IF term_ret.FullName.e = "text" THEN py_strip(term_ret.FullName.v)
                     ELSE <<>>
         IN IF term_ret.Fax.e # "text" \/ term_ret.Fax.v = <<>>
            THEN fetched_customers(Tail(rets), terms)
            ELSE LET raw == term_ret.Fax.v
                     record_id == IF py_int(raw).ok THEN int_to_text(py_int(raw).v)
                                  ELSE py_strip(raw)
                 IN IF record_id = <<>>
                    THEN fetched_customers(Tail(rets), terms)
                    ELSE fetched_customers(Tail(rets),
                             Append(terms, GwCustomer(record_id, name, "quickbooks")))

\* lines 85-93
Fetch_Call ==
    /\ op = "fetch_customers"
    /\ pc = "call"
    /\ Start("_send_qbxml", <<>>, "require")
    /\ pc' = "wait"
    /\ UNCHANGED <<op, excel_customers, qb_customers, comparison, workbook,
                   response, calls, outcome, report_payload, report>>

\* lines 93-112: an exception of _send_qbxml leaves fetch_customers as it is
Fetch_Return ==
    /\ op = "fetch_customers"
    /\ pc = "wait"
    /\ rpc = "returned"
    /\ outcome' = IF ret.kind = "raise" THEN ret
                  ELSE Return(fetched_customers(customer_rets(ret.value.items), <<>>))
    /\ pc' = "done"
    /\ fn' = "none"
    /\ rpc' = "idle"
    /\ UNCHANGED <<op, excel_customers, qb_customers, comparison, workbook,
                   candidates, session, pending, ret, response, calls, invoked,
                   report_payload, report>>

(***************************************************************************)
(* Specification of the operations that talk to QuickBooks                 *)
(***************************************************************************)
Init ==
    /\ op \in {"get_qb_customers", "save_customers_to_quickbooks",
               "add_customer_batch", "process_customers", "fetch_customers",
               "run_customer_sync", "main", "add_customer"}
    /\ pc = CASE op = "process_customers" -> "read_excel"
              [] op \in RunOps -> "sync_read_excel"
              [] OTHER -> "call"
    /\ workbook \in CASE op = "process_customers" -> Workbooks
                      [] op = "run_customer_sync" -> RunWorkbooks
                      [] op = "main" -> CliWorkbooks
                      [] OTHER -> {NoWorkbook}
    /\ candidates \in
         CASE op = "save_customers_to_quickbooks" -> SeqsUpTo(CandidatePool, MaxBatch)
           [] op = "add_customer_batch" -> SeqsUpTo(TermsPool, MaxBatch)
           [] op = "add_customer" -> { <<term>> : term \in TermsPool }
           [] OTHER -> {<<>>}
    /\ excel_customers = <<>>
    /\ qb_customers = <<>>
    /\ comparison = NoValue
    /\ fn = "none"
    /\ rpc = "idle"
    /\ session = NoValue
    /\ pending = NoValue
    /\ ret = NoValue
    /\ response = NoValue
    /\ calls = <<>>
    /\ invoked = <<>>
    /\ outcome = NoValue
    /\ report_payload = NoValue
    /\ report = NoValue

Next ==
    \/ Call_GetQbCustomers
    \/ Call_SaveCustomers
    \/ Finish_Call
    \/ Save_Entry
    \/ Connect_Dispatch
    \/ Connect_OpenConnection
    \/ Connect_BeginSession
    \/ GetQb_ProcessRequest
    \/ Save_ProcessRequest
    \/ Sync_EndSession
    \/ Sync_CloseConnection
    \/ RunSync_ReadExcel
    \/ RunSync_GetQb
    \/ Process_ReadExcel
    \/ Process_Compare
    \/ Process_Return
    \/ AddBatch_Call
    \/ Gw_Require
    \/ Gw_Dispatch
    \/ Gw_OpenConnection2
    \/ Gw_BeginSession
    \/ Gw_ProcessRequest
    \/ Gw_EndSession
    \/ Gw_CloseConnection
    \/ AddBatch_Return
    \/ AddCustomer_Call
    \/ AddCustomer_Return
    \/ Fetch_Call
    \/ Fetch_Return

Spec == Init /\ [][Next]_vars

(***************************************************************************)
(* The request documents: create_customers_batch_qbxml, _escape_xml and    *)
(* the requests that add_customer_batch and add_customer build.  A         *)
(* document is its onError policy and the list of its requests; the text   *)
(* of an element is the sequence of characters put between its tags.       *)
(***************************************************************************)
MaxQbxml == 2

\* str.replace(old, new) for a one-character old
RECURSIVE py_replace(_, _, _)
py_replace(s, old, new) ==
    IF s = <<>> THEN <<>>
    ELSE (IF Head(s) = old THEN new ELSE <<Head(s)>>) \o py_replace(Tail(s), old, new)

amp == <<"&", "a", "m", "p", ";">>
lt == <<"&", "l", "t", ";">>
gt == <<"&", "g", "t", ";">>
quot == <<"&", "q", "u", "o", "t", ";">>
apos == <<"&", "a", "p", "o", "s", ";">>

\* qb_gateway.py lines 230-238
_escape_xml(value) ==
    py_replace(py_replace(py_replace(py_replace(py_replace(value,
        "&", amp), "<", lt), ">", gt), "\"", quot), "'", apos)

\* customer_excel_qb_sync.py lines 131-139: one CustomerAddRq
customer_add_rq(cust) ==
    LET name == py_replace(py_replace(py_replace(cust.name, "&", amp), "<", lt), ">", gt)
        term == IF cust.term # <<>> THEN py_replace(cust.term, "&", amp) ELSE <<>>
    IN [rq |-> "CustomerAddRq", Name |-> name, Fax |-> int_to_text(cust.customer_id),
        TermsRef |-> IF term # <<>> THEN Text(term) ELSE Absent]

create_customers_batch_qbxml_reversed(customers) ==
    Return([onError |-> "continueOnError",
            requests |-> [i \in 1..Len(customers) |->
                            customer_add_rq(customers[Len(customers) + 1 - i])]])

\* customer_excel_qb_sync.py lines 127-148
create_customers_batch_qbxml(customers) ==
    Return([onError |-> "continueOnError",
            requests |-> [i \in 1..Len(customers) |-> customer_add_rq(customers[i])]])

\* qb_gateway.py lines 134-142 and 193-199: one StandardTermsAddRq
standard_terms_add_rq(term) ==
    [rq |-> "StandardTermsAddRq", Name |-> _escape_xml(term.name),
     StdDiscountDays |-> int_to_text(py_int(term.record_id).v),
     DiscountPct |-> <<"0">>]

\* qb_gateway.py lines 123-151: the document add_customer_batch hands to
\* _send_qbxml, or the exception it raises before
add_customer_batch_qbxml(terms) ==
    IF first_non_numeric(terms) # Absent
    THEN Raise(Exc("ValueError",
               <<"record_id must be numeric for QuickBooks customer terms: ",
                 first_non_numeric(terms).v>>))
    ELSE Return([onError |-> "continueOnError",
                 requests |-> [i \in 1..Len(terms) |-> standard_terms_add_rq(terms[i])]])

\* qb_gateway.py lines 181-202: the document add_customer hands to
\* _send_qbxml, or the exception it raises before
add_customer_qbxml(term) ==
    IF ~py_int(term.record_id).ok
    THEN Raise(Exc("ValueError",
                   <<"record_id must be numeric for QuickBooks customer terms">>))
    ELSE Return([onError |-> "stopOnError",
                 requests |-> <<standard_terms_add_rq(term)>>])

\* names and terms with and without reserved characters
XmlTexts ==
    { <<"a">>, <<"A", "&", "B">>, <<"<", "b", ">">>, <<"&", "l", "t", ";", "'", "\"">> }

QbxmlCustomers ==
    { Customer(n, t, cid) : n \in XmlTexts, t \in XmlTexts \cup {<<>>}, cid \in {1, 12} }

QbxmlTerms ==
    { GwCustomer(rid, n, "excel") :
        rid \in {<<"3", "0">>, <<" ", "7">>, <<"x">>}, n \in XmlTexts }

BuildOps ==
    {"create_customers_batch_qbxml", "_escape_xml", "add_customer_batch", "add_customer"}

\* candidates holds the argument: the list of customers, the list of terms,
\* the one term of add_customer, or the one value of _escape_xml
InitQbxml ==
    /\ op \in BuildOps
    /\ pc = "call"
    /\ candidates \in
         CASE op = "create_customers_batch_qbxml" -> SeqsUpTo(QbxmlCustomers, MaxQbxml)
           [] op = "add_customer_batch" -> SeqsUpTo(QbxmlTerms, MaxQbxml) \ {<<>>}
           [] op = "add_customer" -> { <<t>> : t \in QbxmlTerms }
           [] op = "_escape_xml" -> { <<v>> : v \in XmlTexts \cup {<<>>} }
    /\ excel_customers = <<>>
    /\ qb_customers = <<>>
    /\ comparison = NoValue
    /\ workbook = NoWorkbook
    /\ fn = "none"
    /\ rpc = "idle"
    /\ session = NoValue
    /\ pending = NoValue
    /\ ret = NoValue
    /\ response = NoValue
    /\ calls = <<>>
    /\ invoked = <<>>
    /\ outcome = NoValue
    /\ report_payload = NoValue
    /\ report = NoValue

CreateCustomersBatchQbxml ==
    /\ op = "create_customers_batch_qbxml"
    /\ pc = "call"
    /\ outcome' = create_customers_batch_qbxml(candidates)
    /\ pc' = "done"
    /\ UNCHANGED <<op, excel_customers, qb_customers, comparison, workbook,
                   report_payload, report>>
    /\ UNCHANGED remote_vars

EscapeXml ==
    /\ op = "_escape_xml"
    /\ pc = "call"
    /\ outcome' = Return(_escape_xml(candidates[1]))
    /\ pc' = "done"
    /\ UNCHANGED <<op, excel_customers, qb_customers, comparison, workbook,
                   report_payload, report>>
    /\ UNCHANGED remote_vars

AddBatch_BuildRequest ==
    /\ op = "add_customer_batch"
    /\ pc = "call"
    /\ outcome' = add_customer_batch_qbxml(candidates)
    /\ pc' = "done"
    /\ UNCHANGED <<op, excel_customers, qb_customers, comparison, workbook,
                   report_payload, report>>
    /\ UNCHANGED remote_vars

AddCustomer_BuildRequest ==
    /\ op = "add_customer"
    /\ pc = "call"
    /\ outcome' = add_customer_qbxml(candidates[1])
    /\ pc' = "done"
    /\ UNCHANGED <<op, excel_customers, qb_customers, comparison, workbook,
                   report_payload, report>>
    /\ UNCHANGED remote_vars

NextQbxml ==
    \/ CreateCustomersBatchQbxml
    \/ EscapeXml
    \/ AddBatch_BuildRequest
    \/ AddCustomer_BuildRequest

SpecQbxml == InitQbxml /\ [][NextQbxml]_vars

(***************************************************************************)
(* excel_reader.extract_customers, the loop of qb_gateway.fetch_customers  *)
(* over a parsed answer, and compare.compare_customers, each applied to    *)
(* inputs drawn in the initial state                                       *)
(***************************************************************************)
MaxTermRows == 2

\* a cell that openpyxl read as a float: whole part and first decimal
CFloat(whole, tenths) == [t |-> "float", v |-> whole, frac |-> tenths]

\* str(value) of a cell value
py_str_cell(cell) ==
    CASE cell.t = "str" -> cell.v
      [] cell.t = "int" -> int_to_text(cell.v)
      [] cell.t = "float" -> int_to_text(cell.v) \o <<".">> \o int_to_text(cell.frac)
      [] OTHER -> <<"N", "o", "n", "e">>

\* int(value) of a cell value: an int is itself, a float is truncated, text
\* is parsed, None raises TypeError
py_int_cell(cell) ==
    CASE cell.t = "int" -> [ok |-> TRUE, v |-> cell.v]
      [] cell.t = "float" -> [ok |-> TRUE, v |-> cell.v]
      [] cell.t = "str" -> py_int(cell.v)
      [] OTHER -> [ok |-> FALSE]

\* excel_reader.py lines 60-82: the loop over the data rows
RECURSIVE extract_rows(_, _)
extract_rows(rows, terms) ==
    IF rows = <<>> THEN terms
    ELSE LET row == Head(rows)
             name_str == py_strip(py_str_cell(row.Name))
             record_id == IF py_int_cell(row.ID).ok
                          THEN int_to_text(py_int_cell(row.ID).v)
                          ELSE py_strip(py_str_cell(row.ID))
         IN IF row.Name = CNone \/ name_str = <<>>
            THEN extract_rows(Tail(rows), terms)
            ELSE IF row.ID = CNone \/ row.ID = CStr(<<>>)
            THEN extract_rows(Tail(rows), terms)
            ELSE IF record_id = <<>>
            THEN extract_rows(Tail(rows), terms)
            ELSE extract_rows(Tail(rows),
                              Append(terms, GwCustomer(record_id, name_str, "excel")))

\* excel_reader.py lines 28-86
extract_customers(book) ==
    IF book.state = "missing"
    THEN Raise(Exc("FileNotFoundError", <<"Workbook not found: ", "workbook_path">>))
    ELSE IF book.state = "no_sheet"
    THEN Raise(Exc("ValueError", <<"Worksheet 'customers' not found in workbook">>))
    ELSE Return(extract_rows(book.rows, <<>>))

\* the ID and Name cells of the data rows of the customers sheet
IdCells ==
    { CInt(7), CInt(12), CFloat(7, 0), CStr(<<"7">>), CStr(<<" ", "7", " ">>),
      CStr(<<"7", ".", "0">>), CStr(<<"x">>), CStr(<<" ">>), CStr(<<>>), CNone }

NameCells == { CStr(<<"a", " ">>), CStr(<<" ">>), CNone }

TermRows == { [ID |-> id, Name |-> name] : id \in IdCells, name \in NameCells }

TermWorkbooks ==
    {Workbook("missing", <<>>), Workbook("no_sheet", <<>>)} \cup
    { Workbook("ok", rows) : rows \in SeqsUpTo(TermRows, MaxTermRows) }

\* the answers that _send_qbxml returns to fetch_customers: status 0
ParsedAnswers ==
    { Document(<<GwQueryItem(<<"0">>, "Status OK", rets)>>) :
        rets \in SeqsUpTo(GwRetPool, MaxRet) }

MaxTerms == 2

\* {c.record_id: c for c in customers}: the keys in the order of their first
\* occurrence, the value of a key is its last occurrence
RECURSIVE by_id_keys(_, _)
by_id_keys(customers, seen) ==
    IF customers = <<>> THEN <<>>
    ELSE LET rid == Head(customers).record_id IN
         IF rid \in seen THEN by_id_keys(Tail(customers), seen)
         ELSE <<rid>> \o by_id_keys(Tail(customers), seen \cup {rid})

RECURSIVE by_id_get(_, _, _)
by_id_get(customers, rid, current) ==
    IF customers = <<>> THEN current
    ELSE IF Head(customers).record_id = rid
         THEN by_id_get(Tail(customers), rid, Head(customers))
         ELSE by_id_get(Tail(customers), rid, current)

by_id_has(customers, rid) == \E i \in 1..Len(customers) : customers[i].record_id = rid

\* model.py lines 13-15
ConflictReason == {"name_mismatch", "missing_in_excel", "missing_in_quickbooks"}

\* model.py lines 32-39
Conflict(rid, excel_name, qb_name, reason) ==
    [record_id |-> rid, excel_name |-> excel_name, qb_name |-> qb_name,
     reason |-> reason]

\* compare.py line 17: a set, iterated at line 21 in an order that the hashes
\* of the ids decide
mutual_ids(excel, qb) ==
    { rid \in { excel[i].record_id : i \in 1..Len(excel) } : by_id_has(qb, rid) }

Orderings(ids) ==
    { order \in [1..Cardinality(ids) -> ids] :
        \A i, j \in 1..Cardinality(ids) : order[i] = order[j] => i = j }

\* compare.py lines 21-32
RECURSIVE mismatch_conflicts(_, _, _)
mismatch_conflicts(order, excel, qb) ==
    IF order = <<>> THEN <<>>
    ELSE LET rid == Head(order)
             excel_c == by_id_get(excel, rid, NoValue)
             qb_c == by_id_get(qb, rid, NoValue)
         IN (IF excel_c.name # qb_c.name
             THEN <<Conflict(rid, Text(excel_c.name), Text(qb_c.name), "data_mismatch")>>
             ELSE <<>>)
            \o mismatch_conflicts(Tail(order), excel, qb)

\* compare.py lines 34-44
RECURSIVE missing_conflicts(_, _, _)
missing_conflicts(keys, excel, qb) ==
    IF keys = <<>> THEN <<>>
    ELSE LET rid == Head(keys) IN
         (IF ~by_id_has(excel, rid)
          THEN <<Conflict(rid, Absent, Text(by_id_get(qb, rid, NoValue).name),
                          "missing_in_excel")>>
          ELSE <<>>)
         \o missing_conflicts(Tail(keys), excel, qb)

\* compare.py lines 47 and 50
RECURSIVE only_in(_, _, _)
only_in(keys, mine, other) ==
    IF keys = <<>> THEN <<>>
    ELSE (IF ~by_id_has(other, Head(keys)) THEN <<by_id_get(mine, Head(keys), NoValue)>>
          ELSE <<>>)
         \o only_in(Tail(keys), mine, other)

\* compare.py lines 13-56, for one iteration order of mutual_ids
comparison_report(excel, qb, order) ==
    [excel_only |-> only_in(by_id_keys(excel, {}), excel, qb),
     qb_only |-> only_in(by_id_keys(qb, {}), qb, excel),
     conflicts |-> mismatch_conflicts(order, excel, qb)
                   \o missing_conflicts(by_id_keys(qb, {}), excel, qb)]

TermIds == { <<"7">>, <<"8">> }
TermNames == { <<"a">>, <<"b">> }
ExcelTerms == { GwCustomer(rid, n, "excel") : rid \in TermIds, n \in TermNames }
QbTerms == { GwCustomer(rid, n, "quickbooks") : rid \in TermIds \cup {<<"9">>},
                                                 n \in TermNames }

TermOps == {"extract_customers", "fetch_customers", "compare.compare_customers"}

InitTerms ==
    /\ op \in TermOps
    /\ pc = "call"
    /\ workbook \in IF op = "extract_customers" THEN TermWorkbooks ELSE {NoWorkbook}
    /\ response \in IF op = "fetch_customers" THEN ParsedAnswers ELSE {NoValue}
    /\ excel_customers \in IF op = "compare.compare_customers"
                           THEN SeqsUpTo(ExcelTerms, MaxTerms) ELSE {<<>>}
    /\ qb_customers \in IF op = "compare.compare_customers"
                        THEN SeqsUpTo(QbTerms, MaxTerms) ELSE {<<>>}
    /\ comparison = NoValue
    /\ candidates = <<>>
    /\ fn = "none"
    /\ rpc = "idle"
    /\ session = NoValue
    /\ pending = NoValue
    /\ ret = NoValue
    /\ calls = <<>>
    /\ invoked = <<>>
    /\ outcome = NoValue
    /\ report_payload = NoValue
    /\ report = NoValue

ExtractCustomers ==
    /\ op = "extract_customers"
    /\ pc = "call"
    /\ outcome' = extract_customers(workbook)
    /\ pc' = "done"
    /\ UNCHANGED <<op, excel_customers, qb_customers, comparison, workbook,
                   report_payload, report>>
    /\ UNCHANGED remote_vars

\* qb_gateway.py lines 94-112, on the root that _send_qbxml returned
Fetch_ReadAnswer ==
    /\ op = "fetch_customers"
    /\ pc = "call"
    /\ outcome' = Return(fetched_customers(customer_rets(response.items), <<>>))
    /\ pc' = "done"
    /\ UNCHANGED <<op, excel_customers, qb_customers, comparison, workbook,
                   report_payload, report>>
    /\ UNCHANGED remote_vars

\* compare.py lines 7-56
Gw_CompareCustomers ==
    /\ op = "compare.compare_customers"
    /\ pc = "call"
    /\ \E order \in Orderings(mutual_ids(excel_customers, qb_customers)) :
         comparison' = comparison_report(excel_customers, qb_customers, order)
    /\ outcome' = Return(comparison')
    /\ pc' = "done"
    /\ UNCHANGED <<op, excel_customers, qb_customers, workbook, report_payload, report>>
    /\ UNCHANGED remote_vars

NextTerms ==
    \/ ExtractCustomers
    \/ Fetch_ReadAnswer
    \/ Gw_CompareCustomers

SpecTerms == InitTerms /\ [][NextTerms]_vars

(***************************************************************************)
(* Helpers used to state the properties of the comparison                  *)
(***************************************************************************)
IdsOf(customers) == { customers[i].customer_id : i \in 1..Len(customers) }

UniqueIds(customers) ==
    \A i, j \in 1..Len(customers) :
        customers[i].customer_id = customers[j].customer_id => i = j

Compared == op = "compare_customers" /\ pc = "done"

\* the record a dict built from the list holds for cid
RecordFor(customers, cid) ==
    LET last == CHOOSE i \in 1..Len(customers) :
                    /\ customers[i].customer_id = cid
                    /\ \A j \in (i + 1)..Len(customers) : customers[j].customer_id # cid
    IN customers[last]

Normalized(s) == py_lower(py_strip(s))

SharedIds == IdsOf(excel_customers) \cap IdsOf(qb_customers)

EqualShared ==
    { cid \in SharedIds :
        /\ Normalized(RecordFor(excel_customers, cid).name)
             = Normalized(RecordFor(qb_customers, cid).name)
        /\ Normalized(RecordFor(excel_customers, cid).term)
             = Normalized(RecordFor(qb_customers, cid).term) }

DifferingShared == SharedIds \ EqualShared

ConflictsFor(cid) ==
    { i \in 1..Len(comparison.same_id_diff_data) : comparison.same_id_diff_data[i][4] = cid }

\* C1: with ids unique within each list and no id shared, only_in_excel is the
\* Excel list in its order, only_in_qb is the QuickBooks list in its order,
\* nothing matches and there is no conflict.
C1_DisjointInputs ==
    (/\ Compared
     /\ UniqueIds(excel_customers)
     /\ UniqueIds(qb_customers)
     /\ SharedIds = {})
    => /\ comparison.only_in_excel = excel_customers
       /\ comparison.only_in_qb = qb_customers
       /\ comparison.matching_count = 0
       /\ comparison.same_id_diff_data = <<>>

C1_Witness ==
    /\ Compared
    /\ UniqueIds(excel_customers)
    /\ UniqueIds(qb_customers)
    /\ SharedIds = {}
    /\ Len(excel_customers) = 1
    /\ Len(qb_customers) = 2
    /\ comparison.only_in_excel = excel_customers
    /\ comparison.only_in_qb = qb_customers

\* C2: every id present in both lists whose name and term agree after
\* strip().lower() is counted in matching_count exactly once and has no
\* conflict entry, whatever the case and surrounding whitespace of the raw values.
C2_MatchCountedOnce ==
    Compared =>
        /\ comparison.matching_count = Cardinality(EqualShared)
        /\ \A cid \in EqualShared : ConflictsFor(cid) = {}

C2_Witness ==
    /\ Compared
    /\ comparison.matching_count = 1
    /\ \E cid \in EqualShared :
          /\ RecordFor(excel_customers, cid).name # RecordFor(qb_customers, cid).name
          /\ RecordFor(excel_customers, cid).term # RecordFor(qb_customers, cid).term

\* a conflict entry holds the value v in one of its three text positions
EntryHolds(entry, v) == \E k \in 1..3 : entry[k] = v

\* C3 as stated: every id present in both lists whose name or term differs
\* after normalization has exactly one conflict entry, is not counted in
\* matching_count, and the entry retains the raw name and the raw term of the
\* Excel record and of the QuickBooks record.
C3_RetainsBothSides ==
    Compared =>
        /\ comparison.matching_count = Cardinality(SharedIds \ DifferingShared)
        /\ \A cid \in DifferingShared :
              /\ Cardinality(ConflictsFor(cid)) = 1
              /\ \A i \in ConflictsFor(cid) :
                    LET entry == comparison.same_id_diff_data[i] IN
                    /\ EntryHolds(entry, RecordFor(excel_customers, cid).name)
                    /\ EntryHolds(entry, RecordFor(excel_customers, cid).term)
                    /\ EntryHolds(entry, RecordFor(qb_customers, cid).name)
                    /\ EntryHolds(entry, RecordFor(qb_customers, cid).term)

\* C3 amended: every id present in both lists whose name or term differs after
\* normalization has exactly one conflict entry and is not counted in
\* matching_count; the entry is (excel name, qb name, excel term, id) with the
\* raw values, so the QuickBooks term is not part of it.
C3_ConflictEntry ==
    Compared =>
        /\ comparison.matching_count = Cardinality(SharedIds \ DifferingShared)
        /\ \A cid \in DifferingShared :
              /\ Cardinality(ConflictsFor(cid)) = 1
              /\ \A i \in ConflictsFor(cid) :
                    comparison.same_id_diff_data[i] =
                        << RecordFor(excel_customers, cid).name,
                           RecordFor(qb_customers, cid).name,
                           RecordFor(excel_customers, cid).term,
                           cid >>

C3_Witness ==
    /\ Compared
    /\ Len(comparison.same_id_diff_data) = 1
    /\ \E cid \in DifferingShared :
          /\ RecordFor(excel_customers, cid).name # Normalized(RecordFor(excel_customers, cid).name)
          /\ comparison.same_id_diff_data[1][1] = RecordFor(excel_customers, cid).name

\* the first record of the list that carries cid
FirstRecordFor(customers, cid) ==
    LET first == CHOOSE i \in 1..Len(customers) :
                     /\ customers[i].customer_id = cid
                     /\ \A j \in 1..(i - 1) : customers[j].customer_id # cid
    IN customers[first]

FirstEqualShared ==
    { cid \in SharedIds :
        /\ Normalized(FirstRecordFor(excel_customers, cid).name)
             = Normalized(FirstRecordFor(qb_customers, cid).name)
        /\ Normalized(FirstRecordFor(excel_customers, cid).term)
             = Normalized(FirstRecordFor(qb_customers, cid).term) }

\* C4: when a list holds several records with one id, the first of them in list
\* order is the one used for matching, for conflict detection and in the
\* only_in_excel / only_in_qb lists.
C4_FirstWins ==
    Compared =>
        /\ \A i \in 1..Len(comparison.only_in_excel) :
              comparison.only_in_excel[i] =
                  FirstRecordFor(excel_customers, comparison.only_in_excel[i].customer_id)
        /\ \A i \in 1..Len(comparison.only_in_qb) :
              comparison.only_in_qb[i] =
                  FirstRecordFor(qb_customers, comparison.only_in_qb[i].customer_id)
        /\ comparison.matching_count = Cardinality(FirstEqualShared)
        /\ \A cid \in SharedIds \ FirstEqualShared :
              \A i \in ConflictsFor(cid) :
                  /\ comparison.same_id_diff_data[i][1] = FirstRecordFor(excel_customers, cid).name
                  /\ comparison.same_id_diff_data[i][2] = FirstRecordFor(qb_customers, cid).name

(***************************************************************************)
(* Helpers used to state the properties of the remote operations           *)
(***************************************************************************)
Done == pc = "done"

CallsOf(method) == { i \in 1..Len(calls) : calls[i].m = method }
SucceededCalls(method) == { i \in CallsOf(method) : calls[i].ok }
FailedCalls(method) == { i \in CallsOf(method) : ~calls[i].ok }

RemoteMethods ==
    {"Dispatch", "OpenConnection", "BeginSession", "ProcessRequest", "EndSession",
     "CloseConnection"}

RemoteCalls == { i \in 1..Len(calls) : calls[i].m \in RemoteMethods }

InvocationsOf(name) == { i \in 1..Len(invoked) : invoked[i].fn = name }

\* C5: a write-back with no candidates returns an empty result without any
\* remote operation (save_customers_to_quickbooks([]) and
\* add_customer_batch(_, [])), and process_customers does not start the
\* write-back when only_in_excel is empty.
C5_EmptyWriteBack ==
    /\ (op \in {"save_customers_to_quickbooks", "add_customer_batch"} /\ candidates = <<>>)
         => /\ calls = <<>>
            /\ Done => outcome = Return(<<>>)
    /\ (op = "process_customers" /\ comparison # NoValue)
         => (comparison.only_in_excel = <<>>
               => InvocationsOf("save_customers_to_quickbooks") = {})

C5_Witness ==
    /\ op = "save_customers_to_quickbooks"
    /\ candidates = <<>>
    /\ Done
    /\ outcome = Return(<<>>)
    /\ InvocationsOf("save_customers_to_quickbooks") # {}
    /\ calls = <<>>

\* the answer to the batch was received and the session was released
BatchAnswered ==
    /\ response # NoValue
    /\ response.wellformed
    /\ Len(response.items) = Len(candidates)
    /\ FailedCalls("EndSession") = {}
    /\ FailedCalls("CloseConnection") = {}

StatusOf(item) == IF item.statusCode.e = "text" THEN py_int(item.statusCode.v).v ELSE -1

\* the record the server reports for candidate i of add_customer_batch
ServerCreated(i) ==
    /\ StatusOf(response.items[i]) = 0
    /\ response.items[i].Ret # Absent
    /\ response.items[i].Ret.StdDiscountDays.e = "text"

\* C6: in add_customer_batch a non-zero status on one item of the answer, at
\* any position, does not fail the batch: the call returns normally and every
\* candidate the server created is in the returned list.
C6_RejectionKeepsOthers ==
    (/\ op = "add_customer_batch"
     /\ Done
     /\ BatchAnswered
     /\ \E i \in 1..Len(candidates) : StatusOf(response.items[i]) # 0)
    => /\ outcome.kind = "return"
       /\ \A i \in 1..Len(candidates) :
            ServerCreated(i) =>
                \E j \in 1..Len(outcome.value) :
                    /\ outcome.value[j].record_id = response.items[i].Ret.StdDiscountDays.v
                    /\ outcome.value[j].name = py_strip(candidates[i].name)

\* C7: save_customers_to_quickbooks returns as created exactly the items of
\* the answer whose status code is 0, in their order; a 3100 item and an item
\* with any other status are not returned and do not make the call raise.
C7_CreatedAreStatusZero ==
    (/\ op = "save_customers_to_quickbooks"
     /\ Done
     /\ BatchAnswered)
    => /\ outcome.kind = "return"
       /\ Len(outcome.value) =
            Cardinality({ i \in 1..Len(candidates) : StatusOf(response.items[i]) = 0 })
       /\ \A j \in 1..Len(outcome.value) :
            \E i \in 1..Len(candidates) :
                /\ StatusOf(response.items[i]) = 0
                /\ outcome.value[j] = candidates[i].name

\* the write of the batch failed before any per-item status was obtained
WholeBatchFailed ==
    /\ InvocationsOf("_send_qbxml") # {}
    /\ ret.kind = "raise"
    /\ \/ response = NoValue
       \/ ~response.wellformed
       \/ response.items = <<>>

\* C8: when the whole batch write fails before any per-item status is
\* obtainable, add_customer_batch surfaces an error to its caller: its outcome
\* differs from the empty list that a call without candidates returns.
C8_BatchFailureSurfaced ==
    (/\ op = "add_customer_batch"
     /\ Done
     /\ candidates # <<>>
     /\ WholeBatchFailed)
    => /\ outcome # Return(<<>>)
       /\ outcome.kind = "raise"

ConnectionFailed ==
    \/ FailedCalls("Dispatch") # {}
    \/ FailedCalls("OpenConnection") # {}
    \/ FailedCalls("BeginSession") # {}

MsgContains(msg, piece) == \E i \in 1..Len(msg) : msg[i] = piece

\* C9: when the connection cannot be established, save_customers_to_quickbooks
\* with candidates raises a RuntimeError whose message contains
\* "Failed to connect to QuickBooks".
C9_ConnectFailureIsRuntimeError ==
    (/\ op = "save_customers_to_quickbooks"
     /\ Done
     /\ candidates # <<>>
     /\ ConnectionFailed)
    => /\ outcome.kind = "raise"
       /\ outcome.exc.type = "RuntimeError"
       /\ MsgContains(outcome.exc.msg, "Failed to connect to QuickBooks: ")

\* no function is inside a remote operation
NoOperationRunning == rpc \in {"idle", "returned"}

\* C10: whenever a remote operation has returned or raised, every successful
\* OpenConnection has been followed by exactly one CloseConnection and every
\* successful BeginSession by exactly one EndSession.
C10_SessionsPaired ==
    NoOperationRunning =>
        /\ Cardinality(SucceededCalls("OpenConnection")) = Cardinality(CallsOf("CloseConnection"))
        /\ Cardinality(SucceededCalls("BeginSession")) = Cardinality(CallsOf("EndSession"))

\* the answer to the query could not be parsed as XML
QueryUnparseable ==
    /\ op \in {"get_qb_customers", "fetch_customers"}
    /\ response # NoValue
    /\ ~response.wellformed

\* C11: when the query response cannot be parsed, the read operation
\* (get_qb_customers, fetch_customers) has called EndSession exactly once and
\* CloseConnection exactly once when it is over, and its outcome is an
\* exception, not a list of customers.
C11_ParseFailureReleases ==
    (Done /\ QueryUnparseable)
    => /\ Cardinality(CallsOf("EndSession")) = 1
       /\ Cardinality(CallsOf("CloseConnection")) = 1
       /\ outcome.kind = "raise"

\* fetch_customers received an answer that carries a status, and the session
\* was released without an exception
QueryAnswered ==
    /\ op = "fetch_customers"
    /\ Done
    /\ response # NoValue
    /\ response.wellformed
    /\ response.items # <<>>
    /\ FailedCalls("EndSession") = {}
    /\ FailedCalls("CloseConnection") = {}

QueryStatusCode == py_int(response.items[1].statusCode.v).v
QueryStatusMessage == response.items[1].statusMessage.v

\* C12: for an answer to the query, _parse_response accepts status 0 and
\* status 1, fetch_customers returns the empty list for status 1, and any
\* other status makes _parse_response raise a RuntimeError whose message is
\* the status message of the answer.
C12_QueryStatus ==
    QueryAnswered
    => /\ QueryStatusCode \in {0, 1} => (ret = Return(response) /\ outcome.kind = "return")
       /\ QueryStatusCode = 1 => outcome = Return(<<>>)
       /\ QueryStatusCode \notin {0, 1}
            => /\ ret = Raise(Exc("RuntimeError", QueryStatusMessage))
               /\ outcome = ret

C12_Witness ==
    /\ QueryAnswered
    /\ QueryStatusCode = 1
    /\ outcome = Return(<<>>)

\* the workbook is missing, has no customers sheet, or none of its rows is
\* usable
NoUsableInput ==
    \/ workbook.state \in {"missing", "no_sheet"}
    \/ /\ workbook.state = "ok"
       /\ read_customers_from_excel(workbook).value = <<>>

InputErrorTypes == {"FileNotFoundError", "KeyError", "ValueError"}

\* C13: in a run of process_customers or run_customer_sync whose workbook is
\* missing, lacks the customers sheet or yields no usable row, no remote call
\* is ever made (no Dispatch, no OpenConnection, no BeginSession), and the run
\* ends with the input error.
C13_InputErrorsFailFast ==
    (op \in ProcessOps /\ NoUsableInput)
    => /\ RemoteCalls = {}
       /\ InvocationsOf("get_qb_customers") = {}
       /\ (Done /\ op = "process_customers")
            => (outcome.kind = "raise" /\ outcome.exc.type \in InputErrorTypes)
       /\ (Done /\ op \in RunOps) => report.status = "error"

\* the exception that ended the stages of run_customer_sync, if any: raised by
\* the first Excel read, by a QuickBooks read or the write-back (the last
\* remote function raised), or by process_customers for an empty list
RunFailure ==
    IF workbook.state # "ok" THEN Text(py_str(read_customers_from_excel(workbook).exc))
    ELSE IF ret # NoValue /\ ret.kind = "raise" THEN Text(py_str(ret.exc))
    ELSE IF read_customers_from_excel(workbook).value = <<>>
    THEN Text(<<"No customers found in Excel file">>)
    ELSE Absent

\* C14: run_customer_sync always ends with a written report and returns its
\* path; when a stage raised, the report has status "error" and the text of
\* the exception in its error field; the status is "success" exactly when the
\* error field is null.
C14_AlwaysReports ==
    (op \in RunOps /\ Done)
    => /\ report # NoValue
       /\ op = "run_customer_sync" => outcome = Return(ReportPath)
       /\ RunFailure # Absent => (report.status = "error" /\ report.error = RunFailure)
       /\ report.status = "success" <=> report.error = Absent

C14_Witness ==
    /\ op = "run_customer_sync"
    /\ Done
    /\ InvocationsOf("save_customers_to_quickbooks") # {}
    /\ ret.kind = "raise"
    /\ report.status = "error"
    /\ report.error = Text(py_str(ret.exc))
    /\ outcome = Return(ReportPath)

\* C15: cli.main returns exit code 0 only when the synchronisation succeeded:
\* when the workbook does not exist or the run fails otherwise, the code it
\* returns is not 0.
C15_ExitCodeReflectsFailure ==
    (op = "main" /\ Done)
    => /\ outcome.kind = "return"
       /\ outcome.value = 0 => (report.status = "success" /\ RunFailure = Absent)

SaveInvocations == InvocationsOf("save_customers_to_quickbooks")

ConflictIds ==
    { comparison.same_id_diff_data[k][4] : k \in 1..Len(comparison.same_id_diff_data) }

OnlyInQb == { comparison.only_in_qb[k] : k \in 1..Len(comparison.only_in_qb) }

\* C16: in a run of process_customers, on its own or through
\* run_customer_sync, save_customers_to_quickbooks is invoked at most once,
\* its argument is the only_in_excel list of the comparison, and none of the
\* records it is given is an only_in_qb record or has the id of a conflict.
C16_WriteBackOnlyExcelOnly ==
    op \in ProcessOps
    => /\ Cardinality(SaveInvocations) <= 1
       /\ \A i \in SaveInvocations :
            /\ comparison # NoValue
            /\ invoked[i].arg = comparison.only_in_excel
            /\ \A k \in 1..Len(invoked[i].arg) :
                 /\ invoked[i].arg[k] \notin OnlyInQb
                 /\ invoked[i].arg[k].customer_id \notin ConflictIds

C16_Witness ==
    /\ op = "run_customer_sync"
    /\ Done
    /\ Cardinality(SaveInvocations) = 1
    /\ comparison.only_in_excel # <<>>
    /\ comparison.only_in_qb # <<>>
    /\ \A i \in SaveInvocations : invoked[i].arg = comparison.only_in_excel

\* C17: within a run of run_customer_sync every read of the Excel file comes
\* before the first QuickBooks call, and every QuickBooks read is started
\* before the write-back: no Excel read follows a QuickBooks request.
C17_StrictPipeline ==
    op \in RunOps
    => /\ \A i \in CallsOf("load_workbook") : \A j \in RemoteCalls : i < j
       /\ \A i \in InvocationsOf("get_qb_customers") : \A j \in SaveInvocations : i < j

\* QuickBooks answered the write-back of this run with status 0 for the
\* candidate that this reported record describes
CreatedInRun(reported) ==
    /\ SaveInvocations # {}
    /\ response # NoValue
    /\ response.wellformed
    /\ Len(response.items) = Len(candidates)
    /\ \E i \in 1..Len(candidates) :
         /\ customer_dicts(candidates)[i] = reported
         /\ StatusOf(response.items[i]) = 0

\* C18: every record that the report of a run lists under added_customers was
\* created by QuickBooks in that run: a candidate that was rejected, that
\* already existed, or whose batch failed, is not listed.
C18_AddedWereCreated ==
    (op \in RunOps /\ Done)
    => \A k \in 1..Len(report.added_customers) :
          CreatedInRun(report.added_customers[k])

(***************************************************************************)
(* Properties of the request documents                                     *)
(***************************************************************************)
StartsWith(s, prefix) ==
    /\ Len(s) >= Len(prefix)
    /\ SubSeq(s, 1, Len(prefix)) = prefix

Entities == { <<amp, "&">>, <<lt, "<">>, <<gt, ">">>, <<quot, "\"">>, <<apos, "'">> }

EntityAt(s) == { e \in Entities : StartsWith(s, e[1]) }

\* the text has no character that starts or ends markup: no "<", no ">", and
\* every "&" begins an entity
RECURSIVE NoMarkup(_)
NoMarkup(s) ==
    IF s = <<>> THEN TRUE
    ELSE IF Head(s) \in {"<", ">"} THEN FALSE
    ELSE IF Head(s) = "&"
    THEN /\ EntityAt(s) # {}
         /\ NoMarkup(SubSeq(s, Len((CHOOSE e \in EntityAt(s) : TRUE)[1]) + 1, Len(s)))
    ELSE NoMarkup(Tail(s))

\* what an XML parser reads back from the text of an element
RECURSIVE xml_decode(_)
xml_decode(s) ==
    IF s = <<>> THEN <<>>
    ELSE IF EntityAt(s) # {}
    THEN LET e == CHOOSE x \in EntityAt(s) : TRUE
         IN <<e[2]>> \o xml_decode(SubSeq(s, Len(e[1]) + 1, Len(s)))
    ELSE <<Head(s)>> \o xml_decode(Tail(s))

\* the value was escaped exactly once: no markup is left and a parser reads
\* the value back
EscapedOnce(placed, value) ==
    /\ NoMarkup(placed)
    /\ xml_decode(placed) = value

BuiltDocument ==
    /\ Done
    /\ outcome.kind = "return"

\* C19: in the batch request built by create_customers_batch_qbxml and in the
\* one built by add_customer_batch, the name and the term of every candidate
\* are in the document with &, < and > each replaced once by its entity: the
\* text holds no markup and reads back as the candidate's value.
C19_ValuesEscapedOnce ==
    /\ (op = "create_customers_batch_qbxml" /\ BuiltDocument)
        => \A i \in 1..Len(candidates) :
             LET rq == outcome.value.requests[i] IN
             /\ EscapedOnce(rq.Name, candidates[i].name)
             /\ candidates[i].term # <<>>
                  => (rq.TermsRef # Absent /\ EscapedOnce(rq.TermsRef.v, candidates[i].term))
    /\ (op = "add_customer_batch" /\ BuiltDocument)
        => \A i \in 1..Len(candidates) :
             EscapedOnce(outcome.value.requests[i].Name, candidates[i].name)

\* C20: for a non-empty list create_customers_batch_qbxml returns a document
\* with the continueOnError policy holding one CustomerAddRq per candidate, in
\* the order of the candidates, each with the candidate's name and its id in
\* Fax; the document of add_customer has the stopOnError policy and one
\* request.
C20_BatchDocumentShape ==
    /\ (op = "create_customers_batch_qbxml" /\ Done /\ candidates # <<>>)
        => /\ outcome.kind = "return"
           /\ outcome.value.onError = "continueOnError"
           /\ Len(outcome.value.requests) = Len(candidates)
           /\ \A i \in 1..Len(candidates) :
                LET rq == outcome.value.requests[i] IN
                /\ rq.rq = "CustomerAddRq"
                /\ xml_decode(rq.Name) = candidates[i].name
                /\ py_int(rq.Fax) = [ok |-> TRUE, v |-> candidates[i].customer_id]
    /\ (op = "add_customer" /\ BuiltDocument)
        => /\ outcome.value.onError = "stopOnError"
           /\ Len(outcome.value.requests) = 1

C20_Witness ==
    /\ op = "create_customers_batch_qbxml"
    /\ Done
    /\ Len(candidates) = 2
    /\ candidates[1].name # candidates[2].name
    /\ candidates[1].customer_id # candidates[2].customer_id
    /\ outcome.value.onError = "continueOnError"
    /\ xml_decode(outcome.value.requests[2].Name) = candidates[2].name

(***************************************************************************)
(* Properties of the single and batch writes of the gateway                *)
(***************************************************************************)
\* the value of a field of the answer item, or the candidate's value when the
\* answer omits the element that holds it
ServerOrCandidate(item, field, fallback) ==
    IF item.Ret = Absent THEN fallback ELSE text_or(item.Ret[field], fallback)

\* the reported record carries, for the id and for the name, the server's
\* value when the answer has it and the candidate's value otherwise (compared
\* after the trimming and int() normalisation that the code applies)
Carries(reported, term, item) ==
    /\ normalise_id(reported.record_id) =
         normalise_id(ServerOrCandidate(item, "StdDiscountDays", term.record_id))
    /\ py_strip(reported.name) = py_strip(ServerOrCandidate(item, "Name", term.name))

AllCreated == \A i \in 1..Len(candidates) : StatusOf(response.items[i]) = 0

\* C21: a record that add_customer or add_customer_batch reports as created
\* has the server's id and name where the answer gives them and the
\* candidate's where it omits them, and every candidate that the server
\* answered with status 0 is reported, whatever fields the answer omits.
C21_ServerValueElseCandidate ==
    /\ (op = "add_customer" /\ Done /\ BatchAnswered /\ AllCreated)
        => /\ outcome.kind = "return"
           /\ Carries(outcome.value, candidates[1], response.items[1])
    /\ (op = "add_customer_batch" /\ Done /\ BatchAnswered /\ AllCreated)
        => /\ outcome.kind = "return"
           /\ Len(outcome.value) = Len(candidates)
           /\ \A i \in 1..Len(candidates) :
                Carries(outcome.value[i], candidates[i], response.items[i])

(***************************************************************************)
(* Properties of the join keys                                             *)
(***************************************************************************)
AllDigits(t) == t # <<>> /\ \A i \in 1..Len(t) : t[i] \in Digits

\* the join key of an identifier written as text: whitespace stripped, and
\* digits, with or without a trailing .0, in integer form; Absent when the
\* text is empty or not a number
CanonicalKey(text) ==
    LET t == py_strip(text) IN
    IF AllDigits(t) THEN Text(int_to_text(digits_value(t, 0)))
    ELSE IF /\ Len(t) > 2
            /\ SubSeq(t, Len(t) - 1, Len(t)) = <<".", "0">>
            /\ AllDigits(SubSeq(t, 1, Len(t) - 2))
    THEN Text(int_to_text(digits_value(SubSeq(t, 1, Len(t) - 2), 0)))
    ELSE Absent

\* the join key of an identifier held by an Excel cell
CanonicalCellKey(cell) ==
    CASE cell.t = "none" -> Absent
      [] cell.t = "int" -> Text(int_to_text(cell.v))
      [] cell.t = "float" -> IF cell.frac = 0 THEN Text(int_to_text(cell.v)) ELSE Absent
      [] cell.t = "str" -> CanonicalKey(cell.v)

\* the keys expected from the rows that have a name
RECURSIVE ExpectedExcelKeys(_)
ExpectedExcelKeys(rows) ==
    IF rows = <<>> THEN <<>>
    ELSE LET row == Head(rows)
             named == row.Name # CNone /\ py_strip(py_str_cell(row.Name)) # <<>>
             key == CanonicalCellKey(row.ID)
         IN (IF named /\ key # Absent THEN <<key.v>> ELSE <<>>)
            \o ExpectedExcelKeys(Tail(rows))

RECURSIVE ExpectedQbKeys(_)
ExpectedQbKeys(rets) ==
    IF rets = <<>> THEN <<>>
    ELSE LET key == IF Head(rets).Fax.e = "text" THEN CanonicalKey(Head(rets).Fax.v)
                    ELSE Absent
         IN (IF key # Absent THEN <<key.v>> ELSE <<>>) \o ExpectedQbKeys(Tail(rets))

RecordIds(customers) == [i \in 1..Len(customers) |-> customers[i].record_id]

\* C22: extract_customers and fetch_customers give an identifier the same
\* join key: the id with surrounding whitespace stripped and, for a number
\* with a trailing .0 (a float cell or numeric text), its integer form; a row
\* or record whose id is empty or not a number is skipped.
C22_SameJoinKey ==
    /\ (op = "extract_customers" /\ Done /\ outcome.kind = "return")
        => RecordIds(outcome.value) = ExpectedExcelKeys(workbook.rows)
    /\ (op = "fetch_customers" /\ Done /\ response # NoValue /\ outcome.kind = "return")
        => RecordIds(outcome.value) = ExpectedQbKeys(customer_rets(response.items))

(***************************************************************************)
(* Properties of compare.compare_customers                                 *)
(***************************************************************************)
GwCompared == op = "compare.compare_customers" /\ Done

RecordIdSet(customers) == { customers[i].record_id : i \in 1..Len(customers) }

\* C23: for inputs that share no id, compare.compare_customers returns no
\* conflict, excel_only equal to the Excel records and qb_only equal to the
\* QuickBooks records: a record that is only in QuickBooks is in qb_only and
\* not among the conflicts.
C23_QbOnlyIsNoConflict ==
    (GwCompared /\ RecordIdSet(excel_customers) \cap RecordIdSet(qb_customers) = {})
    => /\ comparison.conflicts = <<>>
       /\ comparison.excel_only = excel_customers
       /\ comparison.qb_only = qb_customers

\* C24: every Conflict of compare.compare_customers has a reason of the
\* declared set ConflictReason, and the conflict of an id whose names differ
\* has the reason name_mismatch.
C24_DeclaredReasons ==
    GwCompared
    => \A k \in 1..Len(comparison.conflicts) :
         LET conflict == comparison.conflicts[k] IN
         /\ conflict.reason \in ConflictReason
         /\ (conflict.excel_name # Absent /\ conflict.qb_name # Absent)
              => conflict.reason = "name_mismatch"

(***************************************************************************)
(* The partition made by customer_excel_qb_sync.compare_customers          *)
(***************************************************************************)
DiffIds ==
    { comparison.same_id_diff_data[k][4] : k \in 1..Len(comparison.same_id_diff_data) }

\* C25: compare_customers partitions the ids: the ids of same_id_diff_data,
\* of only_in_excel and of only_in_qb are each listed once, the first are
\* shared ids, the second are Excel ids absent from QuickBooks, the third
\* QuickBooks ids absent from Excel, the remaining shared ids are the matched
\* ones, and so matching_count + len(same_id_diff_data) + len(only_in_excel)
\* is the number of distinct Excel ids and matching_count +
\* len(same_id_diff_data) + len(only_in_qb) the number of distinct QuickBooks
\* ids.
C25_IdsPartitioned ==
    Compared =>
        LET excel_ids == IdsOf(excel_customers)
            qb_ids == IdsOf(qb_customers)
            diff == Len(comparison.same_id_diff_data)
        IN /\ Cardinality(DiffIds) = diff
           /\ UniqueIds(comparison.only_in_excel)
           /\ UniqueIds(comparison.only_in_qb)
           /\ DiffIds \subseteq excel_ids \cap qb_ids
           /\ IdsOf(comparison.only_in_excel) = excel_ids \ qb_ids
           /\ IdsOf(comparison.only_in_qb) = qb_ids \ excel_ids
           /\ comparison.matching_count = Cardinality((excel_ids \cap qb_ids) \ DiffIds)
           /\ comparison.matching_count + diff + Len(comparison.only_in_excel)
                = Cardinality(excel_ids)
           /\ comparison.matching_count + diff + Len(comparison.only_in_qb)
                = Cardinality(qb_ids)

C25_Witness ==
    /\ Compared
    /\ Len(excel_customers) > Cardinality(IdsOf(excel_customers))
    /\ Len(qb_customers) > Cardinality(IdsOf(qb_customers))
    /\ comparison.matching_count + Len(comparison.same_id_diff_data) = 1
    /\ comparison.matching_count + Len(comparison.same_id_diff_data)
         + Len(comparison.only_in_qb) = Cardinality(IdsOf(qb_customers))

====
